---------------------------- MODULE Spec2Model ----------------------------
(***************************************************************************)
(* A model of the UofC chatbot extension: the side panel's command         *)
(* interpreter (ChatBot.parseWebCommand), its command handlers and result  *)
(* slots (ChatBot.handleWebCommand, scrollToSearchResult, ...), and the    *)
(* embedding cache and ranker of SemanticSearch.                           *)
(*                                                                         *)
(* Text is modelled as a sequence of tokens: a token is a word (a maximal  *)
(* run of non-blank characters) or one blank, SP.  A regular expression of *)
(* the source is modelled by a pattern over tokens and matched by a        *)
(* backtracking matcher that tries the alternatives in the order the       *)
(* JavaScript engine does, so that capture groups hold what they hold in   *)
(* the program.                                                            *)
(***************************************************************************)
EXTENDS Integers, Sequences, FiniteSets, TLC

VARIABLES
  message,                \* handleSendMessage: the text being handled
  webCommand,             \* handleSendMessage: what parseWebCommand(message) gave
  initialized,            \* ChatBot.initialized
  mcpChecked,             \* whether checkMCPStatus has had its answer
  mcpEnabled,             \* ChatBot.mcpEnabled
  semanticSearchInstance, \* ChatBot.semanticSearch: "null" or "SemanticSearch"
  isTyping,               \* ChatBot.isTyping
  semanticSections,       \* ChatBot.semanticSections
  currentSearchResults,   \* ChatBot.currentSearchResults
  currentSemanticResults, \* ChatBot.currentSemanticResults
  contentEmbeddings,      \* SemanticSearch.contentEmbeddings
  searchCache,            \* SemanticSearch.searchCache
  toProcess,              \* processContentSections: the sections still to visit
  processedSections,      \* processContentSections: const processedSections
  pass,                   \* the segmentation passes the page has run
  reply,                  \* the answer of the last handler
  requestLog,             \* history: the provider requests of the batch
  answered,               \* history: for each request of the batch, whether
                          \* the provider returned an embedding
  searches,               \* history: the results of the last search of each kind
  call,                   \* history: the last direct call of a function, and
                          \* the number of calls so far
  document,               \* the page's document, as the content script finds it
  waiting,                \* the last waitForElement of the content script: its
                          \* promise, observer and timer, and their history
  highlight,              \* the inline styles of the elements that
                          \* highlightElement has touched, and its timers
  chat,                   \* ChatBot.messages, the send button, and the calls
                          \* of handleSendMessage that are awaiting an answer
  marks,                  \* the id attributes of the elements of the document
                          \* and the sections of the last segmentation pass
  boot,                   \* the calls of ChatBot.init and APIKeyModal.handleSave
                          \* under way, what init has set up, chrome.storage
  page                    \* the last operation of the content script on the
                          \* document, and what it returned

parseVars == <<message, webCommand>>

botVars ==
  <<initialized, mcpChecked, mcpEnabled, semanticSearchInstance, isTyping,
    semanticSections, currentSearchResults, currentSemanticResults,
    contentEmbeddings, searchCache, toProcess, processedSections, pass, reply,
    requestLog, answered, searches>>

\* The state of the parts that are modelled on their own.
moreVars == <<highlight, chat, marks, boot>>

partVars == <<call, document, page, waiting, moreVars>>

vars == <<parseVars, botVars, partVars>>

-----------------------------------------------------------------------------
(* Bounds of the model. *)

\* The free text of an utterance has at most this many words.
MaxArgWords == 2

\* Words are separated by at most this many blanks.
MaxBlanks == 2

-----------------------------------------------------------------------------
(* Text. *)

SP == " "

\* The /i flag of every pattern: the words of the patterns are compared
\* case-insensitively.  "Find" and "Semantic" stand for the capitalised forms.
Lower(t) ==
  CASE t = "Find" -> "find"
    [] t = "Semantic" -> "semantic"
    [] OTHER -> t

RECURSIVE TrimLeft(_)
TrimLeft(s) ==
  IF s # <<>> /\ Head(s) = SP THEN TrimLeft(Tail(s)) ELSE s

RECURSIVE TrimRight(_)
TrimRight(s) ==
  IF s # <<>> /\ s[Len(s)] = SP THEN TrimRight(SubSeq(s, 1, Len(s) - 1)) ELSE s

\* String.prototype.trim
Trim(s) == TrimRight(TrimLeft(s))

\* The words of a text, in order.
WordsOf(s) == SelectSeq(s, LAMBDA t : t # SP)

Blanks(n) == [i \in 1..n |-> SP]

\* The words ws written with n blanks between neighbours.
RECURSIVE Join(_, _)
Join(ws, n) ==
  IF ws = <<>> THEN <<>>
  ELSE IF Len(ws) = 1 THEN ws
  ELSE <<Head(ws)>> \o Blanks(n) \o Join(Tail(ws), n)

-----------------------------------------------------------------------------
(* Regular expressions over tokens. *)

Tok(S) == [k |-> "tok", set |-> S]          \* one word of S (case-insensitive)
Ws == [k |-> "ws"]                           \* \s+
AnyPlus == [k |-> "any"]                     \* .+
Grp(n, body) == [k |-> "grp", n |-> n, body |-> body]   \* ( ... ), group n
Opt(body) == [k |-> "opt", body |-> body]    \* ( ... )? , greedy
Alt(alts) == [k |-> "alt", alts |-> alts]    \* a|b|c , tried left to right
Lazy == [k |-> "lazy"]                       \* .+?

Undefined == [def |-> FALSE, s |-> <<>>]

\* No pattern of the program has more than three groups.
NoCaps == [n \in 1..3 |-> Undefined]

RECURSIVE WsMax(_, _)
WsMax(m, i) == IF i <= Len(m) /\ m[i] = SP THEN WsMax(m, i + 1) ELSE i

RECURSIVE MatchSeq(_, _, _, _)
RECURSIVE MatchNode(_, _, _, _)
RECURSIVE MatchAlts(_, _, _, _)
RECURSIVE Continue(_, _, _)

\* Every way the nodes match m from position i on, in the engine's order of
\* preference; each way is the position after the match and the captures.
MatchSeq(nodes, m, i, caps) ==
  IF nodes = <<>> THEN <<[pos |-> i, caps |-> caps]>>
  ELSE Continue(MatchNode(Head(nodes), m, i, caps), Tail(nodes), m)

Continue(rs, nodes, m) ==
  IF rs = <<>> THEN <<>>
  ELSE MatchSeq(nodes, m, Head(rs).pos, Head(rs).caps) \o Continue(Tail(rs), nodes, m)

MatchAlts(alts, m, i, caps) ==
  IF alts = <<>> THEN <<>>
  ELSE MatchSeq(Head(alts), m, i, caps) \o MatchAlts(Tail(alts), m, i, caps)

MatchNode(node, m, i, caps) ==
  CASE node.k = "tok" ->
         IF i <= Len(m) /\ Lower(m[i]) \in node.set
         THEN <<[pos |-> i + 1, caps |-> caps]>> ELSE <<>>
    [] node.k = "ws" ->
         LET mx == WsMax(m, i)
         IN  [x \in 1..(mx - i) |-> [pos |-> mx - x + 1, caps |-> caps]]
    [] node.k = "any" ->
         [x \in 1..(Len(m) + 1 - i) |-> [pos |-> Len(m) + 2 - x, caps |-> caps]]
    [] node.k = "lazy" ->
         [x \in 1..(Len(m) + 1 - i) |-> [pos |-> i + x, caps |-> caps]]
    [] node.k = "grp" ->
         LET rs == MatchSeq(node.body, m, i, caps)
         IN  [x \in 1..Len(rs) |->
               [pos |-> rs[x].pos,
                caps |-> [rs[x].caps EXCEPT ![node.n] =
                            [def |-> TRUE, s |-> SubSeq(m, i, rs[x].pos - 1)]]]]
    [] node.k = "opt" ->
         MatchSeq(node.body, m, i, caps) \o <<[pos |-> i, caps |-> caps]>>
    [] node.k = "alt" -> MatchAlts(node.alts, m, i, caps)

\* String.prototype.match with a pattern anchored by ^ and $: the first way
\* that ends at the end of the text.
MatchAnchored(pattern, m) ==
  LET full == SelectSeq(MatchSeq(pattern, m, 1, NoCaps),
                        LAMBDA r : r.pos = Len(m) + 1)
  IN  IF full = <<>> THEN [matched |-> FALSE, caps |-> NoCaps]
      ELSE [matched |-> TRUE, caps |-> Head(full).caps]

\* String.prototype.match with a pattern that ends with $ and may start
\* anywhere: the leftmost start from which the pattern reaches the end.
RECURSIVE MatchToEnd(_, _, _)
MatchToEnd(pattern, m, i) ==
  IF i > Len(m) THEN [matched |-> FALSE, caps |-> NoCaps]
  ELSE LET full == SelectSeq(MatchSeq(pattern, m, i, NoCaps),
                             LAMBDA r : r.pos = Len(m) + 1)
       IN  IF full = <<>> THEN MatchToEnd(pattern, m, i + 1)
           ELSE [matched |-> TRUE, caps |-> Head(full).caps]

-----------------------------------------------------------------------------
(* ChatBot.parseWebCommand: the ordered rule table. *)

\* A word that the program's patterns read as (\d+).
Digits == {"1", "2", "3"}

\* A word that the program's patterns read as https?:\/\/ and one char or more.
Urls == {"http://u"}

\* extractParam of a rule without one.
NoParam == 0

\* ^(read|extract|scan)(\s+this)?(\s+page)?$
PatExtract ==
  << Grp(1, <<Tok({"read", "extract", "scan"})>>),
     Opt(<<Grp(2, <<Ws, Tok({"this"})>>)>>),
     Opt(<<Grp(3, <<Ws, Tok({"page"})>>)>>) >>

\* ^semantic\s+(search|find)\s+(for\s+)?(.+)$
PatSemantic ==
  << Tok({"semantic"}), Ws, Grp(1, <<Tok({"search", "find"})>>), Ws,
     Opt(<<Grp(2, <<Tok({"for"}), Ws>>)>>),
     Grp(3, <<AnyPlus>>) >>

\* ^find\s+content\s+(like|about|similar\s+to)\s+(.+)$
PatFindContent ==
  << Tok({"find"}), Ws, Tok({"content"}), Ws,
     Grp(1, <<Alt(<< <<Tok({"like"})>>, <<Tok({"about"})>>,
                     <<Tok({"similar"}), Ws, Tok({"to"})>> >>)>>),
     Ws, Grp(2, <<AnyPlus>>) >>

\* ^(find|search)(\s+for)?\s+(.+)$
PatFind ==
  << Grp(1, <<Tok({"find", "search"})>>),
     Opt(<<Grp(2, <<Ws, Tok({"for"})>>)>>),
     Ws, Grp(3, <<AnyPlus>>) >>

\* ^smart\s+scroll\s+to\s+(.+)$
PatSmartScroll ==
  << Tok({"smart"}), Ws, Tok({"scroll"}), Ws, Tok({"to"}), Ws,
     Grp(1, <<AnyPlus>>) >>

\* ^(scroll|go)\s+to\s+(.+)$
PatScroll ==
  << Grp(1, <<Tok({"scroll", "go"})>>), Ws, Tok({"to"}), Ws,
     Grp(2, <<AnyPlus>>) >>

\* ^scroll\s+to\s+section\s+(\d+)$
PatScrollNumber ==
  << Tok({"scroll"}), Ws, Tok({"to"}), Ws, Tok({"section"}), Ws,
     Grp(1, <<Tok(Digits)>>) >>

\* ^(get|list|show)(\s+all)?\s+links?$
PatLinks ==
  << Grp(1, <<Tok({"get", "list", "show"})>>),
     Opt(<<Grp(2, <<Ws, Tok({"all"})>>)>>),
     Ws, Tok({"link", "links"}) >>

\* ^(navigate|go)\s+to\s+(https?:\/\/.+)$
PatNavigate ==
  << Grp(1, <<Tok({"navigate", "go"})>>), Ws, Tok({"to"}), Ws,
     Grp(2, <<Tok(Urls), Opt(<<AnyPlus>>)>>) >>

\* ^(click|press)\s+(.+)$
PatClick ==
  << Grp(1, <<Tok({"click", "press"})>>), Ws, Grp(2, <<AnyPlus>>) >>

\* ^(forms?|inputs?|fields?)$
PatForms ==
  << Grp(1, <<Tok({"form", "forms", "input", "inputs", "field", "fields"})>>) >>

commands ==
  << [pattern |-> PatExtract,      action |-> "extractStructuredData",   extractParam |-> NoParam],
     [pattern |-> PatSemantic,     action |-> "semanticSearch",          extractParam |-> 2],
     [pattern |-> PatFindContent,  action |-> "semanticSearch",          extractParam |-> 2],
     [pattern |-> PatFind,         action |-> "findSections",            extractParam |-> 2],
     [pattern |-> PatSmartScroll,  action |-> "semanticScroll",          extractParam |-> 1],
     [pattern |-> PatScroll,       action |-> "scrollToSection",         extractParam |-> 2],
     [pattern |-> PatScrollNumber, action |-> "scrollToSectionByNumber", extractParam |-> 1],
     [pattern |-> PatLinks,        action |-> "getAllLinks",             extractParam |-> NoParam],
     [pattern |-> PatNavigate,     action |-> "navigate",                extractParam |-> 2],
     [pattern |-> PatClick,        action |-> "click",                   extractParam |-> 1],
     [pattern |-> PatForms,        action |-> "extractFormFields",       extractParam |-> NoParam] >>

\* What a call of parseWebCommand ends with: null, a command (with params
\* when the rule extracts one), or the TypeError of undefined.trim().
Null == [kind |-> "null", action |-> "", hasParams |-> FALSE, query |-> <<>>]
Thrown == [kind |-> "throw", action |-> "", hasParams |-> FALSE, query |-> <<>>]
Command(a) == [kind |-> "cmd", action |-> a, hasParams |-> FALSE, query |-> <<>>]
CommandQ(a, q) == [kind |-> "cmd", action |-> a, hasParams |-> TRUE, query |-> q]

\* handleSendMessage before it has called parseWebCommand.
NotParsed == [kind |-> "none", action |-> "", hasParams |-> FALSE, query |-> <<>>]

\* The body of the loop for one matching rule.
RuleResult(command, match) ==
  IF command.extractParam = NoParam THEN Command(command.action)
  ELSE IF match.caps[command.extractParam].def
       THEN CommandQ(command.action, Trim(match.caps[command.extractParam].s))
       ELSE Thrown

\* for (const command of commands), from rule k on.
RECURSIVE ParseFrom(_, _)
ParseFrom(msg, k) ==
  IF k > Len(commands) THEN Null
  ELSE LET match == MatchAnchored(commands[k].pattern, msg)
       IN  IF match.matched THEN RuleResult(commands[k], match)
           ELSE ParseFrom(msg, k + 1)

parseWebCommand(msg) == ParseFrom(msg, 1)

-----------------------------------------------------------------------------
(* The utterances the interpreter is applied to: a phrase of command words  *)
(* (or none), then free text of at most MaxArgWords words, the words        *)
(* separated by one to MaxBlanks blanks.  handleSendMessage trims the text  *)
(* and drops an empty one, so an utterance starts and ends with a word.     *)

Heads ==
  { <<>>,
    <<"read">>, <<"read", "this">>, <<"read", "page">>, <<"scan", "this", "page">>,
    <<"extract">>,
    <<"semantic", "search">>, <<"semantic", "search", "for">>,
    <<"semantic", "find">>, <<"Semantic", "find", "for">>,
    <<"find", "content", "like">>, <<"find", "content", "about">>,
    <<"find", "content", "similar", "to">>,
    <<"find">>, <<"Find">>, <<"find", "for">>, <<"search">>, <<"search", "for">>,
    <<"smart", "scroll", "to">>,
    <<"scroll", "to">>, <<"go", "to">>, <<"scroll", "to", "section">>,
    <<"get", "links">>, <<"list", "all", "links">>, <<"show", "link">>,
    <<"navigate", "to">>,
    <<"click">>, <<"press">>,
    <<"forms">>, <<"input">>, <<"fields">> }

ArgWords == {"tuition", "costs", "for", "3", "http://u"}

Args == UNION { [1..n -> ArgWords] : n \in 0..MaxArgWords }

Utterances ==
  { Join(h \o a, n) : h \in Heads, a \in Args, n \in 1..MaxBlanks } \ { <<>> }

-----------------------------------------------------------------------------
(* The page and the embedding provider, as far as the side panel sees them. *)

\* A page is read (segmented) at most this many times in a run.
MaxPasses == 2

\* A segmentation pass yields at most this many sections.
MaxSections == 2

\* A plain search matches at most this many elements in a row, and the first
\* of them is one of the first MaxFirst elements of the document.
MaxMatches == 2

MaxFirst == 1

\* processContentSections, extractSemanticSections: content.length > 50
MinContent == 50

\* createSemanticSection: the section made of block number id - 1 of pass p
\* (its id is `semantic-section-${id - 1}`); the segmenter keeps it only if its
\* content is longer than MinContent.
Section(id, p) ==
  [id |-> id, pass |-> p, selector |-> <<"sec", id>>, len |-> MinContent + 1]

SectionIds == 1..MaxSections

RECURSIVE Ascending(_)
Ascending(S) ==
  IF S = {} THEN <<>>
  ELSE LET lo == CHOOSE x \in S : \A y \in S : x <= y
       IN  <<lo>> \o Ascending(S \ {lo})

\* extractSemanticSections: what pass p can return, the kept blocks in order.
PassSections(p) ==
  { [i \in 1..Len(Ascending(S)) |-> Section(Ascending(S)[i], p)] :
      S \in SUBSET SectionIds }

\* findSections: the elements that contain the query, in document order.
Element(k) == [selector |-> <<"el", k>>]

FoundSections ==
  { [i \in 1..n |-> Element(first + i - 1)] :
      first \in 1..MaxFirst, n \in 0..MaxMatches }

\* The provider's vector for the content of a section.
ContentVector(section) == <<section.id, section.pass>>

\* The provider's vector for a query.
QueryVector(query) ==
  IF "tuition" \in {query[i] : i \in 1..Len(query)} THEN <<1, 0>> ELSE <<-1, 1>>

-----------------------------------------------------------------------------
(* SemanticSearch: similarity and ranking.  A similarity is kept as the     *)
(* pair (num, den2), standing for num / sqrt(den2), so that comparisons are  *)
(* exact.                                                                    *)

RECURSIVE Dot(_, _)
Dot(a, b) ==
  IF a = <<>> THEN 0 ELSE Head(a) * Head(b) + Dot(Tail(a), Tail(b))

\* The projection of vecA on vecB, without the test for a zero magnitude:
\* the dot product over the squared magnitude of vecB.
ProjectionOnto(vecA, vecB) ==
  [num |-> Dot(vecA, vecB), den2 |-> Dot(vecB, vecB) * Dot(vecB, vecB)]

calculateCosineSimilarity(vecA, vecB) ==
  IF Dot(vecA, vecA) = 0 \/ Dot(vecB, vecB) = 0
  THEN [num |-> 0, den2 |-> 1]
  ELSE [num |-> Dot(vecA, vecB), den2 |-> Dot(vecA, vecA) * Dot(vecB, vecB)]

\* A comparison that lets the threshold itself through: similarity >= p / 10.
AtLeast(sim, p) == sim.num > 0 /\ 100 * sim.num * sim.num >= p * p * sim.den2

\* similarity > p / 10, for 0 <= p
Above(sim, p) == sim.num > 0 /\ 100 * sim.num * sim.num > p * p * sim.den2

Signed(sim) == IF sim.num < 0 THEN 0 - sim.num * sim.num ELSE sim.num * sim.num

\* a < b
SimLess(a, b) == Signed(a) * b.den2 < Signed(b) * a.den2

getRelevanceLabel(similarity) ==
  IF Above(similarity, 8) THEN "Very High"
  ELSE IF Above(similarity, 6) THEN "High"
  ELSE IF Above(similarity, 4) THEN "Medium"
  ELSE IF Above(similarity, 2) THEN "Low"
  ELSE "Very Low"

\* Array.prototype.sort((a, b) => b.key - a.key), stable and descending, as
\* the order it puts the indices of keys in.
RECURSIVE InsertDesc(_, _, _)
InsertDesc(x, sorted, keys) ==
  IF sorted = <<>> THEN <<x>>
  ELSE IF SimLess(keys[Head(sorted)], keys[x]) THEN <<x>> \o sorted
  ELSE <<Head(sorted)>> \o InsertDesc(x, Tail(sorted), keys)

RECURSIVE SortedIndices(_, _)
SortedIndices(n, keys) ==
  IF n = 0 THEN <<>> ELSE InsertDesc(n, SortedIndices(n - 1, keys), keys)

SortDesc(xs, keys) ==
  [i \in 1..Len(xs) |-> xs[SortedIndices(Len(xs), keys)[i]]]

\* Array.prototype.slice(0, n)
Slice(xs, n) == SubSeq(xs, 1, IF Len(xs) < n THEN Len(xs) ELSE n)

\* semanticSearch(query, sections, maxResults = 5)
DefaultMaxResults == 5

\* findMostRelevantSections: slice(0, 3)
TopRanked == 3

\* formatSectionsResponse: sections.slice(0, 10)
PlainShown == 10

\* A cache key that leaves the count out.
CacheKeyOfQuery(query, sections) == query

\* const cacheKey = `${query}_${sections.length}`: the pieces of the query,
\* an underscore and the count.
CacheKey(query, sections) == query \o <<"_", Len(sections)>>

\* Map.prototype.set
MapSet(map, key, value) ==
  [k \in DOMAIN map \cup {key} |-> IF k = key THEN value ELSE map[k]]

\* Map.prototype.clear, new Map()
EmptyMap == <<>>

\* A test that lets a section of any length through.
EmbeddableWhateverLength(section) == TRUE

\* processContentSections, line 46: content && content.length > 50
Embeddable(section) == section.len > MinContent

\* A generateEmbedding that lets the provider's error through: the loop of
\* processContentSections ends with the failed request.
Rethrow(remaining) == <<>>

\* generateEmbedding, lines 35..38: the catch returns null for a failed
\* request, processContentSections (line 48) skips the section and its loop
\* goes on with the sections after it.
Resume(remaining) == Tail(remaining)

\* processContentSections: { ...section, content, embedding }
Processed(section, embedding) ==
  [id |-> section.id, pass |-> section.pass, selector |-> section.selector,
   len |-> section.len, embedding |-> embedding]

\* semanticSearch, lines 94..100: .map(section => ({ section, similarity }))
Similarities(queryEmbedding, have, embeddings) ==
  [i \in 1..Len(have) |->
     [section |-> have[i],
      similarity |-> calculateCosineSimilarity(queryEmbedding,
                                               embeddings[have[i].id])]]

\* A cut of the list as it stands, without the sort.
FirstSimilar(kept, maxResults) == Slice(kept, maxResults)

\* semanticSearch, lines 102..103: .sort(...).slice(0, maxResults)
TopSimilar(kept, maxResults) ==
  Slice(SortDesc(kept, [i \in 1..Len(kept) |-> kept[i].similarity]), maxResults)

\* semanticSearch, lines 105..109: { ...result.section, relevanceScore,
\* relevanceLabel }
Scored(top) ==
  [i \in 1..Len(top) |->
     [id |-> top[i].section.id,
      pass |-> top[i].section.pass,
      selector |-> top[i].section.selector,
      len |-> top[i].section.len,
      embedding |-> top[i].section.embedding,
      relevanceScore |-> top[i].similarity,
      relevanceLabel |-> getRelevanceLabel(top[i].similarity)]]

\* semanticSearch on a cache miss, with the query's embedding at hand:
\* lines 92..109.
RankSections(queryEmbedding, sections, embeddings, maxResults) ==
  Scored(
    TopSimilar(
      SelectSeq(
        Similarities(queryEmbedding,
                     SelectSeq(sections, LAMBDA sec : sec.id \in DOMAIN embeddings),
                     embeddings),
        LAMBDA r : Above(r.similarity, 1)),
      maxResults))

\* semanticSearch, lines 111..112: this.searchCache.set(cacheKey, results)
Remember(cache, key, results, query) ==
  [results |-> results, cache |-> MapSet(cache, key, results),
   asked |-> <<query>>]

\* An empty list that is stored in the cache like any other.
UnansweredButStored(cache, key, query) ==
  [results |-> <<>>, cache |-> MapSet(cache, key, <<>>), asked |-> <<query>>]

\* semanticSearch, line 89: if (!queryEmbedding) return []
Unanswered(cache, key, query) ==
  [results |-> <<>>, cache |-> cache, asked |-> <<query>>]

\* semanticSearch(query, sections, maxResults): the results, the query cache
\* it leaves and the queries it asked the provider to embed.  ok tells
\* whether the provider answers the request for the query's embedding, if
\* one is made.
semanticSearch(query, sections, maxResults, cache, embeddings, ok) ==
  IF CacheKey(query, sections) \in DOMAIN cache
  THEN [results |-> cache[CacheKey(query, sections)], cache |-> cache,
        asked |-> <<>>]
  ELSE IF ~ok THEN Unanswered(cache, CacheKey(query, sections), query)
  ELSE Remember(cache, CacheKey(query, sections),
                RankSections(QueryVector(query), sections, embeddings,
                             maxResults),
                query)

\* /scroll\s+(?:to\s+)?(?:a\s+)?(?:section\s+)?(?:that\s+)?
\*  (?:mentions?|about|regarding|concerning)?\s*["']?(.+?)["']?$/i
\* (the words of the model hold no quote, so ["']? matches nothing)
PatScrollTerm ==
  << Tok({"scroll"}), Ws,
     Opt(<<Tok({"to"}), Ws>>), Opt(<<Tok({"a"}), Ws>>),
     Opt(<<Tok({"section"}), Ws>>), Opt(<<Tok({"that"}), Ws>>),
     Opt(<<Tok({"mention", "mentions", "about", "regarding", "concerning"})>>),
     Opt(<<Ws>>), Grp(1, <<Lazy>>) >>

\* /find\s+(?:content|section|text)?\s*(?:about|regarding|concerning)?\s*
\*  ["']?(.+?)["']?$/i
PatFindTerm ==
  << Tok({"find"}), Ws,
     Opt(<<Tok({"content", "section", "text"})>>), Opt(<<Ws>>),
     Opt(<<Tok({"about", "regarding", "concerning"})>>), Opt(<<Ws>>),
     Grp(1, <<Lazy>>) >>

\* extractSearchTerms, lines 157..159 and 162..164: terms.push(match[1].trim())
TermOf(match) == IF match.matched THEN <<Trim(match.caps[1].s)>> ELSE <<>>

\* A list that always ends with the request itself.
TermsAnd(terms, userRequest) == terms \o <<userRequest>>

\* extractSearchTerms, lines 166..170
TermsOr(terms, userRequest) == IF terms = <<>> THEN <<userRequest>> ELSE terms

extractSearchTerms(userRequest) ==
  TermsOr(TermOf(MatchToEnd(PatScrollTerm, userRequest, 1))
            \o TermOf(MatchToEnd(PatFindTerm, userRequest, 1)),
          userRequest)

\* results.find(r => r.id === id), as a position of kept
Existing(kept, id) == CHOOSE i \in 1..Len(kept) : kept[i].id = id

\* A deduplication that leaves the first result of an id as it is.
KeepFirst(kept, at, result) == kept

\* deduplicateResults, lines 178..181
Raise(kept, at, result) ==
  IF SimLess(kept[at].relevanceScore, result.relevanceScore)
  THEN [kept EXCEPT ![at].relevanceScore = result.relevanceScore,
                    ![at].relevanceLabel = result.relevanceLabel]
  ELSE kept

\* deduplicateResults: the first result of each id stays, and takes the score
\* and label of a later result of its id that scores higher.
RECURSIVE Deduplicate(_, _)
Deduplicate(results, kept) ==
  IF results = <<>> THEN kept
  ELSE IF \E i \in 1..Len(kept) : kept[i].id = Head(results).id
  THEN Deduplicate(Tail(results),
                   Raise(kept, Existing(kept, Head(results).id), Head(results)))
  ELSE Deduplicate(Tail(results), Append(kept, Head(results)))

\* A list handed on as it is, duplicates included.
NotDeduplicated(results) == results

deduplicateResults(results) == Deduplicate(results, <<>>)

\* The terms whose cached results hold a result of this id.
Holders(cache, keys, id) ==
  { j \in 1..Len(keys) :
      /\ keys[j] \in DOMAIN cache
      /\ \E i \in 1..Len(cache[keys[j]]) : cache[keys[j]][i].id = id }

\* The cached results of key, with k in the place of the result of its id.
Updated(cache, key, k) ==
  [cache EXCEPT ![key] =
     [i \in 1..Len(cache[key]) |->
        IF cache[key][i].id = k.id THEN k ELSE cache[key][i]]]

Least(S) == CHOOSE j \in S : \A h \in S : j <= h

\* The result objects that deduplicateResults updates are the objects held
\* by the query cache: the entry of the first term that returned the id
\* shows the update.
RECURSIVE WriteBack(_, _, _)
WriteBack(cache, keys, kept) ==
  IF kept = <<>> THEN cache
  ELSE IF Holders(cache, keys, Head(kept).id) = {}
  THEN WriteBack(cache, keys, Tail(kept))
  ELSE WriteBack(
         Updated(cache, keys[Least(Holders(cache, keys, Head(kept).id))],
                 Head(kept)),
         keys, Tail(kept))

\* The loop of findMostRelevantSections over the terms from number j on.
RECURSIVE SearchTerms(_, _, _, _, _, _, _)

\* findMostRelevantSections, lines 141..142, with the results r of the term.
SearchTerm(terms, j, sections, embeddings, oks, allResults, r) ==
  SearchTerms(terms, j + 1, sections, r.cache, embeddings, oks,
              allResults \o r.results)

SearchTerms(terms, j, sections, cache, embeddings, oks, allResults) ==
  IF j > Len(terms) THEN [allResults |-> allResults, cache |-> cache]
  ELSE SearchTerm(terms, j, sections, embeddings, oks, allResults,
                  semanticSearch(terms[j], sections, DefaultMaxResults, cache,
                                 embeddings, oks[j]))

\* findMostRelevantSections, lines 146..148: .sort(...).slice(0, 3)
TopRelevant(deduplicatedResults) ==
  Slice(SortDesc(deduplicatedResults,
                 [i \in 1..Len(deduplicatedResults) |->
                    deduplicatedResults[i].relevanceScore]),
        TopRanked)

\* findMostRelevantSections, lines 145..150
Relevant(cache, keys, deduplicatedResults) ==
  [results |-> TopRelevant(deduplicatedResults),
   cache |-> WriteBack(cache, keys, deduplicatedResults)]

\* findMostRelevantSections from line 138 on, for the terms found.
FindTerms(searchTerms, found, sections) ==
  Relevant(found.cache,
           [j \in 1..Len(searchTerms) |-> CacheKey(searchTerms[j], sections)],
           deduplicateResults(found.allResults))

FindFor(searchTerms, sections, cache, embeddings, oks) ==
  FindTerms(searchTerms,
            SearchTerms(searchTerms, 1, sections, cache, embeddings, oks, <<>>),
            sections)

\* findMostRelevantSections(userRequest, sections): the ranked results and
\* the query cache it leaves.
findMostRelevantSections(userRequest, sections, cache, embeddings, oks) ==
  FindFor(extractSearchTerms(userRequest), sections, cache, embeddings, oks)

\* extractSearchTerms returns at most two terms.
MaxTerms == 2

-----------------------------------------------------------------------------
(* The side panel: ChatBot and the SemanticSearch it owns. *)

\* What executeMCPAction meets: "ok", the receiving context answers
\* {success: true, data}; "fail", it answers {success: false, error}, so that
\* response.data is undefined; "reject", the message is not delivered and
\* executeMCPAction throws.
Outcomes == {"ok", "fail", "reject"}

\* The answer of a handler: the message it returns, and what the receiving
\* context answered to the command the handler dispatched last ("none" if it
\* dispatched none).  The answer to a numbered scroll request has the number
\* asked for, the selector the handler scrolled to and, for reference, the
\* selector of the result that the last search call gave that number.
Reply(kind, outcome) ==
  [kind |-> kind, outcome |-> outcome, index |-> 0, target |-> <<>>,
   expected |-> <<>>, parsed |-> "none", enabled |-> FALSE, via |-> "none",
   dispatched |-> <<>>, sent |-> <<>>]

\* A request that reaches both the service worker and the content script.
executeMCPActionEverywhere(action) ==
  <<[action |-> action, to |-> {"serviceWorker", "contentScript"}]>>

\* executeMCPAction(action, params): the requests it sends, each with the
\* contexts that receive it.  chrome.runtime.sendMessage reaches the service
\* worker, chrome.tabs.sendMessage the content script of the active tab.
executeMCPAction(action) ==
  IF action \in {"navigate", "click"}
  THEN <<[action |-> action, to |-> {"serviceWorker"}]>>
  ELSE <<[action |-> action, to |-> {"contentScript"}]>>

\* The requests sent by the calls executeMCPAction(dispatched[1]), ...
RECURSIVE SentBy(_)
SentBy(dispatched) ==
  IF dispatched = <<>> THEN <<>>
  ELSE executeMCPAction(Head(dispatched)) \o SentBy(Tail(dispatched))

\* The answer to a message, with how handleSendMessage got it: what
\* parseWebCommand made of the message (parsed), whether web interaction was
\* enabled, the path taken (via: "llm" for sendToGroq, "command" for
\* handleWebCommand), the actions executeMCPAction was called with, in
\* order, and the requests sent.
Answer(kind, outcome, parsed, via, dispatched) ==
  [kind |-> kind, outcome |-> outcome, index |-> 0, target |-> <<>>,
   expected |-> <<>>, parsed |-> parsed, enabled |-> mcpEnabled, via |-> via,
   dispatched |-> dispatched, sent |-> SentBy(dispatched)]

NoSearches == [last |-> "none", plain |-> <<>>, semantic |-> <<>>]

\* A direct call of a function of SemanticSearch: its arguments, what it
\* returned, the queries it sent to the provider, the number n of the call,
\* and the lists that the calls before it (earlier) and the calls up to it
\* (computed) ranked, by the pair <<query, number of candidates>>.
Called(fn, n, query, sections, maxResults, results, asked, earlier, computed) ==
  [fn |-> fn, n |-> n, query |-> query, sections |-> sections,
   maxResults |-> maxResults, results |-> results, asked |-> asked,
   earlier |-> earlier, computed |-> computed]

\* What the content script did last: the operation, the sections it
\* returned (kept) and the sections of all the blocks (made), or the selector
\* it was given, the rendered size of the elements, the element it scrolled
\* to, the element it highlighted and its answer.
PageDid(op, kept, made, selector, size, scrolled, highlighted, outcome, error) ==
  [op |-> op, sections |-> kept, made |-> made, selector |-> selector,
   size |-> size, scrolled |-> scrolled, highlighted |-> highlighted,
   outcome |-> outcome, error |-> error]

\* The content script has done nothing yet.
NoPage == PageDid("none", <<>>, <<>>, <<>>, "none", <<>>, <<>>, "none", "none")

\* waitForElement, line 418: timeout = 5000
DefaultTimeout == 5000

\* The promise of waitForElement before resolve is called.
Pending ==
  [settled |-> FALSE, found |-> FALSE, selector |-> <<>>, element |-> <<>>,
   timeout |-> FALSE]

\* waitForElement, lines 423..427 and 435..439: { found: true, selector,
\* element }
Found(selector, element) ==
  [settled |-> TRUE, found |-> TRUE, selector |-> selector,
   element |-> element, timeout |-> FALSE]

\* waitForElement, lines 449..453: { found: false, selector, timeout: true }
TimedOut(selector) ==
  [settled |-> TRUE, found |-> FALSE, selector |-> selector, element |-> <<>>,
   timeout |-> TRUE]

\* A resolve that replaces the value of a promise already settled.
SettleAgain(promise, outcome) == outcome

\* resolve(outcome) of new Promise((resolve, reject) => ..), line 420: the
\* first call settles the promise, a later call does nothing.
Settle(promise, outcome) == IF promise.settled THEN promise ELSE outcome

\* A call of waitForElement: the n-th, its selector and timeout, its promise,
\* whether its observer is connected and its timer is pending, and as
\* history the outcomes resolve was called with, whether the selector matched
\* at the call or at a mutation before the timeout, and whether the timeout
\* has elapsed.
Wait(n, selector, timeout, promise, observing, timer, resolves, seen, elapsed) ==
  [n |-> n, selector |-> selector, timeout |-> timeout, promise |-> promise,
   observing |-> observing, timer |-> timer, resolves |-> resolves,
   seen |-> seen, elapsed |-> elapsed]

NotWaiting == Wait(0, <<>>, 0, Pending, FALSE, FALSE, <<>>, FALSE, FALSE)

\* The inline border and background of an element.
Style(border, background) == [border |-> border, background |-> background]

\* No inline border and background: element.style.border = '' and
\* element.style.backgroundColor = ''
NoStyle == Style("", "")

\* highlightElement, lines 144..145
Highlighted == Style("2px solid #ff0000", "#ffff00")

\* highlightElement has touched no element.
NoHighlight == [before |-> <<>>, now |-> <<>>, timers |-> <<>>]

\* The parts that are modelled on their own, before they have run.
\* new ChatBot(): no message, nothing sent; the send button is enabled.
NoChat ==
  [messages |-> <<>>, disabled |-> FALSE, flights |-> <<>>, attempts |-> 0,
   made |-> 0, loaded |-> FALSE, heard |-> 0]

\* The side panel before DOMContentLoaded, with an empty chrome.storage.
NoBoot ==
  [loaded |-> FALSE, key |-> FALSE, modal |-> FALSE, saves |-> <<>>,
   started |-> 0, inits |-> 0, chatListeners |-> 0, messageListeners |-> 0,
   welcomes |-> 0, stored |-> <<>>, before |-> <<>>, messages |-> <<>>,
   loads |-> 0, writes |-> <<>>]

\* No element of the document has an id attribute, no pass has run.
NoMarks == [ids |-> <<>>, sections |-> <<>>, passes |-> 0, changes |-> 0]

InitMore ==
  /\ highlight = NoHighlight
  /\ chat = NoChat
  /\ marks = NoMarks
  /\ boot = NoBoot

\* No function has been called directly.
NoCall == Called("none", 0, <<>>, <<>>, 0, <<>>, <<>>, <<>>, <<>>)

Selectors(results) == [i \in 1..Len(results) |-> results[i].selector]

\* The messages typed into the side panel.
BotPhrases ==
  { <<"tuition", "costs">>,
    <<"read", "page">>,
    <<"find", "content", "like", "tuition">>,
    <<"semantic", "search", "for", "costs">>,
    <<"smart", "scroll", "to", "tuition">>,
    <<"find", "for", "tuition">>,
    <<"find", "tuition">>,
    <<"scroll", "to", "tuition">>,
    <<"get", "links">>,
    <<"forms">>,
    <<"navigate", "to", "http://u">>,
    <<"click", "tuition">> }

BotUtterances == { Join(ph, 1) : ph \in BotPhrases }

\* handleSendMessage, line 401: what parseWebCommand gives for each of them.
Interpreted == [u \in BotUtterances |-> parseWebCommand(u)]

\* new ChatBot(), new SemanticSearch()
InitBot ==
  /\ initialized = FALSE
  /\ mcpChecked = FALSE
  /\ mcpEnabled = FALSE
  /\ semanticSearchInstance = "null"
  /\ isTyping = FALSE
  /\ semanticSections = <<>>
  /\ currentSearchResults = <<>>
  /\ currentSemanticResults = <<>>
  /\ contentEmbeddings = EmptyMap
  /\ searchCache = EmptyMap
  /\ toProcess = <<>>
  /\ processedSections = <<>>
  /\ pass = 0
  /\ reply = Reply("none", "none")
  /\ requestLog = <<>>
  /\ answered = <<>>
  /\ searches = NoSearches
  /\ call = NoCall
  /\ page = NoPage
  /\ waiting = NotWaiting
  /\ InitMore

Init ==
  /\ message = <<>>
  /\ webCommand = NotParsed
  /\ InitBot
  /\ document = <<>>

panelVars == <<initialized, mcpChecked, mcpEnabled, semanticSearchInstance>>

slotVars == <<currentSearchResults, currentSemanticResults>>

cacheVars == <<contentEmbeddings, searchCache>>

batchVars == <<toProcess, processedSections, requestLog, answered>>

\* init with an API key in storage; initializeSemanticSearch finds the class
\* SemanticSearch loaded or not.
ChatBotInit ==
  /\ ~initialized
  /\ initialized' = TRUE
  /\ semanticSearchInstance' \in {"null", "SemanticSearch"}
  /\ UNCHANGED <<partVars, parseVars, mcpChecked, mcpEnabled, isTyping, semanticSections,
                 slotVars, cacheVars, batchVars, pass, reply, searches>>

\* checkMCPStatus once the service worker has answered (connected) or the
\* request has failed (~connected).
CheckMCPStatus ==
  /\ initialized
  /\ ~mcpChecked
  /\ mcpChecked' = TRUE
  /\ mcpEnabled' \in BOOLEAN
  /\ UNCHANGED <<partVars, parseVars, initialized, semanticSearchInstance, isTyping,
                 semanticSections, slotVars, cacheVars, batchVars, pass, reply,
                 searches>>

\* handleSendMessage, line 384: if (!message || this.isTyping) return
Accepts == initialized /\ ~isTyping

\* handleSendMessage takes the branch of handleWebCommand for u.
Dispatches(u) ==
  /\ Accepts
  /\ Interpreted[u].kind = "cmd"
  /\ mcpEnabled

\* handleSendMessage: parseWebCommand throws.
SendThrows ==
  \E u \in BotUtterances :
    /\ Accepts
    /\ Interpreted[u].kind = "throw"
    /\ reply' = Answer("error", "none", "throw", "none", <<>>)
    /\ UNCHANGED <<partVars, parseVars, panelVars, isTyping, semanticSections, slotVars,
                   cacheVars, batchVars, pass, searches>>

\* handleSendMessage: no command, or MCP is off: sendToGroq.
SendToGroq ==
  \E u \in BotUtterances, ok \in BOOLEAN :
    /\ Accepts
    /\ Interpreted[u].kind = "null"
         \/ (Interpreted[u].kind = "cmd" /\ ~mcpEnabled)
    /\ reply' = Answer(IF ok THEN "llm" ELSE "error", "none", Interpreted[u].kind, "llm", <<>>)
    /\ UNCHANGED <<partVars, parseVars, panelVars, isTyping, semanticSections, slotVars,
                   cacheVars, batchVars, pass, searches>>

\* handleWebCommand, case 'findSections', and formatSectionsResponse.
HandleFind ==
  \E u \in BotUtterances, outcome \in Outcomes :
    /\ Dispatches(u)
    /\ Interpreted[u].action = "findSections"
    /\ IF outcome = "ok"
       THEN \E found \in FoundSections :
              IF found # <<>>
              THEN /\ currentSearchResults' = Slice(found, PlainShown)
                   /\ reply' = Answer("foundSections", outcome, "cmd", "command", <<"findSections">>)
                   /\ searches' = [searches EXCEPT !.last = "plain",
                                                   !.plain = Selectors(found)]
              ELSE /\ UNCHANGED currentSearchResults
                   /\ reply' = Answer("noSections", outcome, "cmd", "command", <<"findSections">>)
                   /\ searches' = [searches EXCEPT !.last = "plain",
                                                   !.plain = <<>>]
       ELSE /\ UNCHANGED currentSearchResults
            /\ reply' = Answer("failedWebCommand", outcome, "cmd", "command", <<"findSections">>)
            /\ searches' = [searches EXCEPT !.last = "plain", !.plain = <<>>]
    /\ UNCHANGED <<partVars, parseVars, panelVars, isTyping, semanticSections,
                   currentSemanticResults, cacheVars, batchVars, pass>>

\* handleWebCommand, case 'scrollToSection', and formatScrollResponse.  The
\* parameters hold a query and no selector, so the content script's
\* scrollToSection throws 'Either selector or coordinates must be provided'.
HandleScroll ==
  \E u \in BotUtterances, outcome \in {"fail", "reject"} :
    /\ Dispatches(u)
    /\ Interpreted[u].action = "scrollToSection"
    /\ reply' = Answer(IF outcome = "fail" THEN "failedToScroll"
                      ELSE "failedWebCommand", outcome, "cmd", "command", <<"scrollToSection">>)
    /\ UNCHANGED <<partVars, parseVars, panelVars, isTyping, semanticSections, slotVars,
                   cacheVars, batchVars, pass, searches>>

\* handleWebCommand, cases 'navigate' and 'click'.
HandleBrowser ==
  \E u \in BotUtterances, outcome \in Outcomes :
    /\ Dispatches(u)
    /\ Interpreted[u].action \in {"navigate", "click"}
    /\ reply' = IF outcome = "reject" THEN Answer("failedWebCommand", outcome, "cmd", "command", <<Interpreted[u].action>>)
                ELSE IF Interpreted[u].action = "navigate"
                THEN Answer("navigated", outcome, "cmd", "command", <<Interpreted[u].action>>)
                ELSE Answer("clicked", outcome, "cmd", "command", <<Interpreted[u].action>>)
    /\ UNCHANGED <<partVars, parseVars, panelVars, isTyping, semanticSections, slotVars,
                   cacheVars, batchVars, pass, searches>>

\* handleWebCommand, cases 'getAllLinks' and 'extractFormFields': the
\* formatter reads .length of the data.
HandleList ==
  \E u \in BotUtterances, outcome \in Outcomes :
    /\ Dispatches(u)
    /\ Interpreted[u].action \in {"getAllLinks", "extractFormFields"}
    /\ reply' = IF outcome # "ok" THEN Answer("failedWebCommand", outcome, "cmd", "command", <<Interpreted[u].action>>)
                ELSE IF Interpreted[u].action = "getAllLinks"
                THEN Answer("links", outcome, "cmd", "command", <<Interpreted[u].action>>)
                ELSE Answer("forms", outcome, "cmd", "command", <<Interpreted[u].action>>)
    /\ UNCHANGED <<partVars, parseVars, panelVars, isTyping, semanticSections, slotVars,
                   cacheVars, batchVars, pass, searches>>

\* processSemanticSections calls processContentSections: the batch starts
\* with every section of the pass still to visit, and the handler of u waits.
StartBatch(u, list) ==
  /\ isTyping' = TRUE
  /\ message' = u
  /\ webCommand' = Interpreted[u]
  /\ toProcess' = list
  /\ processedSections' = <<>>
  /\ requestLog' = <<>>
  /\ answered' = <<>>

\* handleWebCommand, case 'extractStructuredData'.
HandleExtract ==
  \E u \in BotUtterances, outcome \in Outcomes :
    /\ Dispatches(u)
    /\ Interpreted[u].action = "extractStructuredData"
    /\ IF outcome # "ok"
       THEN /\ reply' = Answer("failedWebCommand", outcome, "cmd", "command", <<"extractStructuredData">>)
            /\ UNCHANGED <<parseVars, isTyping, batchVars, pass>>
       ELSE /\ pass < MaxPasses
            /\ pass' = pass + 1
            /\ \E list \in PassSections(pass + 1) :
                 IF semanticSearchInstance = "null"
                 THEN /\ reply' = Answer("pageAnalysis", outcome, "cmd", "command", <<"extractStructuredData">>)
                      /\ UNCHANGED <<parseVars, isTyping, batchVars>>
                 ELSE /\ StartBatch(u, list)
                      /\ UNCHANGED reply
    /\ UNCHANGED <<partVars, panelVars, semanticSections, slotVars, cacheVars, searches>>

\* The provider's answers to the requests for the terms of one search.
TermOutcomes == [1..MaxTerms -> BOOLEAN]

\* handleSemanticSearch and handleSemanticScroll from the call of
\* findMostRelevantSections on (lines 909..934 and 951..969), for the command
\* cmd, with what findMostRelevantSections gave.
SemanticAnswer(cmd, found, dispatched) ==
  /\ searchCache' = found.cache
  /\ IF cmd.action = "semanticSearch"
     THEN IF found.results = <<>>
          THEN /\ reply' = Answer("noRelevant", "none", "cmd", "command",               dispatched)
               /\ UNCHANGED currentSemanticResults
               /\ searches' = [searches EXCEPT !.last = "semantic",
                                               !.semantic = <<>>]
          ELSE /\ reply' = Answer("foundSemantic", "none", "cmd", "command",               dispatched)
               /\ currentSemanticResults' = found.results
               /\ searches' = [searches EXCEPT
                                 !.last = "semantic",
                                 !.semantic = Selectors(found.results)]
     ELSE /\ UNCHANGED <<currentSemanticResults, searches>>
          /\ IF found.results = <<>>
             THEN reply' = Answer("noRelevant", "none", "cmd", "command",               dispatched)
             ELSE \E scroll \in Outcomes :
                    reply' = Answer(IF scroll = "ok" THEN "smartScrolled"
                                    ELSE IF scroll = "fail"
                                    THEN "smartScrollFailed"
                                    ELSE "semanticScrollFailed",
                                    scroll, "cmd", "command",                 Append(dispatched, "scrollToSection"))

\* A semantic search that ends before it has ranked anything.
SemanticFailure(cmd, kind, outcome, dispatched) ==
  /\ reply' = Answer(kind, outcome, "cmd", "command", dispatched)
  /\ searches' = IF cmd.action = "semanticSearch"
                 THEN [searches EXCEPT !.last = "semantic", !.semantic = <<>>]
                 ELSE searches
  /\ UNCHANGED <<searchCache, currentSemanticResults>>

\* handleWebCommand, cases 'semanticSearch' and 'semanticScroll':
\* handleSemanticSearch and handleSemanticScroll up to the point where they
\* wait for processContentSections, or to their end if they do not.
HandleSemantic ==
  \E u \in BotUtterances :
    /\ Dispatches(u)
    /\ Interpreted[u].action \in {"semanticSearch", "semanticScroll"}
    /\ IF semanticSearchInstance = "null"
       THEN /\ SemanticFailure(Interpreted[u], "semanticUnavailable", "none",
                            <<>>)
            /\ UNCHANGED <<parseVars, isTyping, batchVars, pass>>
       ELSE IF semanticSections # <<>>
       THEN /\ \E oks \in TermOutcomes :
                 SemanticAnswer(
                   Interpreted[u],
                   findMostRelevantSections(Interpreted[u].query, semanticSections,
                                            searchCache, contentEmbeddings, oks),
                   <<>>)
            /\ UNCHANGED <<parseVars, isTyping, batchVars, pass>>
       ELSE \E outcome \in Outcomes :
              IF outcome # "ok"
              THEN /\ SemanticFailure(Interpreted[u], "failedWebCommand", outcome,
                                   <<"extractStructuredData">>)
                   /\ UNCHANGED <<parseVars, isTyping, batchVars, pass>>
              ELSE /\ pass < MaxPasses
                   /\ pass' = pass + 1
                   /\ \E list \in PassSections(pass + 1) : StartBatch(u, list)
                   /\ UNCHANGED <<reply, searches, searchCache,
                                  currentSemanticResults>>
    /\ UNCHANGED <<partVars, panelVars, semanticSections, currentSearchResults,
                   contentEmbeddings>>

\* processContentSections, one turn of its loop: the provider answers the
\* request for the section's embedding (ok) or the request fails.
EmbedSection ==
  \E ok \in BOOLEAN :
    /\ isTyping
    /\ toProcess # <<>>
    /\ LET section == Head(toProcess)
           embedding == ContentVector(section)
       IN  IF Embeddable(section)
           THEN /\ requestLog' = Append(requestLog, section)
                /\ answered' = Append(answered, ok)
                /\ IF ok
                   THEN /\ contentEmbeddings' =
                             MapSet(contentEmbeddings, section.id, embedding)
                        /\ processedSections' =
                             Append(processedSections, Processed(section, embedding))
                   ELSE UNCHANGED <<contentEmbeddings, processedSections>>
           ELSE UNCHANGED <<requestLog, answered, contentEmbeddings,
                            processedSections>>
    /\ toProcess' = IF Embeddable(Head(toProcess)) /\ ~ok
                    THEN Resume(toProcess)
                    ELSE Tail(toProcess)
    /\ UNCHANGED <<partVars, parseVars, panelVars, isTyping, semanticSections, slotVars,
                   searchCache, pass, reply, searches>>

\* processContentSections returns, processSemanticSections stores what it
\* returned, and the handler that waited for it runs to its end.
FinishBatch ==
  /\ isTyping
  /\ toProcess = <<>>
  /\ semanticSections' = processedSections
  /\ IF webCommand.action = "extractStructuredData"
     THEN /\ reply' = Answer("pageAnalysis", "ok", "cmd", "command",          <<"extractStructuredData">>)
          /\ UNCHANGED <<searchCache, currentSemanticResults, searches>>
     ELSE \E oks \in TermOutcomes :
            SemanticAnswer(
              webCommand,
              findMostRelevantSections(webCommand.query, processedSections,
                                       searchCache, contentEmbeddings, oks),
              <<"extractStructuredData">>)
  /\ isTyping' = FALSE
  /\ message' = <<>>
  /\ webCommand' = NotParsed
  /\ processedSections' = <<>>
  /\ requestLog' = <<>>
  /\ answered' = <<>>
  /\ UNCHANGED <<partVars, panelVars, currentSearchResults, contentEmbeddings,
                 toProcess, pass>>

\* The numbers a result can be asked for by.
MaxIndex == 3

\* What the i-th result of the last search call was, if it had one.
Expected(i) ==
  IF searches.last = "none" THEN <<>>
  ELSE IF i <= Len(searches[searches.last]) THEN searches[searches.last][i]
  ELSE <<>>

ScrollReply(kind, outcome, i, target) ==
  [Answer(IF outcome = "reject" THEN "failedToScroll" ELSE kind, outcome,
          "none", "none",
          IF target = <<>> THEN <<>> ELSE <<"scrollToSection">>)
     EXCEPT !.index = i, !.target = target, !.expected = Expected(i)]

\* scrollToSearchResult(i - 1)
ScrollToSearchResult ==
  \E i \in 1..MaxIndex :
    /\ initialized
    /\ IF i <= Len(currentSearchResults)
       THEN \E outcome \in Outcomes :
              reply' = ScrollReply("scrolledTo", outcome, i,
                                   currentSearchResults[i].selector)
       ELSE IF i <= Len(currentSemanticResults)
       THEN \E outcome \in Outcomes :
              reply' = ScrollReply("scrolledSemantic", outcome, i,
                                   currentSemanticResults[i].selector)
       ELSE reply' = ScrollReply("sectionNotFound", "none", i, <<>>)
    /\ UNCHANGED <<partVars, parseVars, panelVars, isTyping, semanticSections, slotVars,
                   cacheVars, batchVars, pass, searches>>

Next ==
  \/ ChatBotInit
  \/ CheckMCPStatus
  \/ SendThrows
  \/ SendToGroq
  \/ HandleFind
  \/ HandleScroll
  \/ HandleBrowser
  \/ HandleList
  \/ HandleExtract
  \/ HandleSemantic
  \/ EmbedSection
  \/ FinishBatch
  \/ ScrollToSearchResult

Spec == Init /\ [][Next]_vars

-----------------------------------------------------------------------------
(* The interpreter applied to one utterance. *)

InitParse ==
  /\ message \in Utterances
  /\ webCommand = NotParsed
  /\ InitBot
  /\ document = <<>>

\* handleSendMessage, line 401: const webCommand = this.parseWebCommand(message)
Interpret ==
  /\ webCommand = NotParsed
  /\ webCommand' = parseWebCommand(message)
  /\ UNCHANGED <<message, botVars, partVars>>

NextParse == Interpret

SpecParse == InitParse /\ [][NextParse]_vars

\* processContentSections returns, and its caller keeps the sections it
\* returned as the candidates of the searches that follow.
SectionsProcessed ==
  /\ isTyping
  /\ toProcess = <<>>
  /\ semanticSections' = processedSections
  /\ isTyping' = FALSE
  /\ UNCHANGED <<partVars, parseVars, panelVars, slotVars, cacheVars, batchVars,
                 pass, reply, searches>>

-----------------------------------------------------------------------------
(* The content script: the document, the segmenter (extractSemanticSections) *)
(* and scrollToSection.  A document is the sequence of the element children  *)
(* of its body; an element is a heading, a paragraph, or a container (a DIV  *)
(* or a SECTION landmark) of headings and paragraphs.  An element is named   *)
(* by its path, <<i>> or <<i, j>>.  The elements carry no id, no class and   *)
(* no link, and only headings and paragraphs hold text of their own.         *)

\* The body has at most this many element children.
MaxNodes == 3

\* A container has at most this many element children.
MaxKids == 2

\* At most this many children of the body are containers.
MaxContainers == 1

\* identifyContentBlocks: block.content.length > 100
MinBlock == 100

\* findTextBlocks: text.length > 100 && text.length < 1000
MinText == 100

MaxText == 1000

\* findTextBlocks: words.length > 20
MinWords == 20

\* The texts of the elements: a short line, and 200 words of three letters.
ShortText == [chars |-> 20, words |-> 4]

LongText == [chars |-> 799, words |-> 200]

NoText == [chars |-> 0, words |-> 0]

Leaf(tag, text) == [tag |-> tag, text |-> text, kids |-> <<>>]

Container(tag, kids) == [tag |-> tag, text |-> NoText, kids |-> kids]

HeadingTags == {"H1", "H2"}

\* parseInt(heading.tagName.substring(1))
Level(tag) == IF tag = "H1" THEN 1 ELSE 2

Leaves ==
  { Leaf(tag, ShortText) : tag \in HeadingTags }
    \cup { Leaf("P", text) : text \in {ShortText, LongText} }

Containers ==
  { Container(tag, kids) :
      tag \in {"DIV", "SECTION"},
      kids \in UNION { [1..n -> Leaves] : n \in 1..MaxKids } }

Documents ==
  { doc \in UNION { [1..n -> Leaves \cup Containers] : n \in 1..MaxNodes } :
      Cardinality({ i \in 1..Len(doc) : doc[i].kids # <<>> }) <= MaxContainers }

\* The element at a path.
Node(doc, path) ==
  IF Len(path) = 1 THEN doc[path[1]] ELSE doc[path[1]].kids[path[2]]

\* document.querySelectorAll('*'): the paths of the elements from child i of
\* the body on, in document order.
RECURSIVE PathsFrom(_, _)
PathsFrom(doc, i) ==
  IF i > Len(doc) THEN <<>>
  ELSE <<<<i>>>> \o [j \in 1..Len(doc[i].kids) |-> <<i, j>>]
         \o PathsFrom(doc, i + 1)

\* document.querySelectorAll(tags)
SelectAll(doc, tags) ==
  SelectSeq(PathsFrom(doc, 1), LAMBDA path : Node(doc, path).tag \in tags)

\* element.nextElementSibling, again and again
NextSiblings(doc, path) ==
  IF Len(path) = 1
  THEN [k \in 1..(Len(doc) - path[1]) |-> <<path[1] + k>>]
  ELSE [k \in 1..(Len(doc[path[1]].kids) - path[2]) |-> <<path[1], path[2] + k>>]

\* element.innerText, as the elements whose text it is made of.
TextElements(doc, path) ==
  IF Node(doc, path).kids = <<>> THEN {path}
  ELSE { <<path[1], j>> : j \in 1..Len(Node(doc, path).kids) }

RECURSIVE SumChars(_, _)
SumChars(doc, paths) ==
  IF paths = {} THEN 0
  ELSE LET path == CHOOSE p \in paths : TRUE
       IN  Node(doc, path).text.chars + SumChars(doc, paths \ {path})

\* The length of the text of these elements, joined by single separators.
Chars(doc, paths) ==
  IF paths = {} THEN 0 ELSE SumChars(doc, paths) + Cardinality(paths) - 1

Range(seq) == { seq[i] : i \in 1..Len(seq) }

\* getElementSelector(element), for an element without id and class:
\* `${tagName}:nth-of-type(${index + 1})`
getElementSelector(doc, element) ==
  << Node(doc, element).tag,
     1 + Cardinality({ k \in 1..(element[Len(element)] - 1) :
                         Node(doc, [element EXCEPT ![Len(element)] = k]).tag
                           = Node(doc, element).tag }) >>

\* A content block: the element whose text is its heading (<<>> if none is),
\* the elements whose text is its content, the elements it claims, its type
\* and its selector.
Block(heading, text, elements, type, selector) ==
  [heading |-> heading, text |-> text, elements |-> elements, type |-> type,
   selector |-> selector]

\* A section that ends before the next heading of any level.
ClaimedUpToAnyHeading(doc, siblings, headingLevel) ==
  SubSeq(siblings, 1,
         Cardinality({ k \in 1..Len(siblings) :
                         \A j \in 1..k : Node(doc, siblings[j]).tag \notin HeadingTags }))

\* extractSectionFromHeading, lines 586..595: the siblings the section takes.
RECURSIVE Claimed(_, _, _)
Claimed(doc, siblings, headingLevel) ==
  IF siblings = <<>> THEN <<>>
  ELSE IF /\ Node(doc, Head(siblings)).tag \in HeadingTags
          /\ Level(Node(doc, Head(siblings)).tag) <= headingLevel
  THEN <<>>
  ELSE <<Head(siblings)>> \o Claimed(doc, Tail(siblings), headingLevel)

\* extractSectionFromHeading, lines 597..604, with the siblings taken.
HeadingSection(doc, heading, taken) ==
  Block(heading, UNION { TextElements(doc, el) : el \in Range(taken) },
        <<heading>> \o taken, "heading-section",
        getElementSelector(doc, heading))

extractSectionFromHeading(doc, heading) ==
  HeadingSection(doc, heading,
                 Claimed(doc, NextSiblings(doc, heading),
                         Level(Node(doc, heading).tag)))

\* getBlockTitle: the first heading inside the element; without one, a
\* sentence of the element's own text or nothing (<<>>).
getBlockTitle(doc, element) ==
  IF \E el \in TextElements(doc, element) \ {element} :
       Node(doc, el).tag \in HeadingTags
  THEN CHOOSE el \in TextElements(doc, element) :
         /\ Node(doc, el).tag \in HeadingTags
         /\ \A other \in TextElements(doc, element) :
              Node(doc, other).tag \in HeadingTags => el[2] <= other[2]
  ELSE <<>>

extractContentBlock(doc, element) ==
  Block(getBlockTitle(doc, element), TextElements(doc, element), <<element>>,
        "semantic-block", getElementSelector(doc, element))

\* A check that lets every heading through.
UnclaimedOrNot(element, processedElements) == TRUE

\* identifyContentBlocks, line 545: if (processedElements.has(heading)) return
Unclaimed(element, processedElements) == element \notin processedElements

\* identifyContentBlocks, lines 543..552: the loop over the headings.
RECURSIVE HeadingBlocks(_, _, _, _)

\* lines 548..551, with the section of the heading.
ClaimSection(doc, headings, processedElements, blocks, section) ==
  HeadingBlocks(doc, headings, processedElements \cup Range(section.elements),
                Append(blocks, section))

HeadingBlocks(doc, headings, processedElements, blocks) ==
  IF headings = <<>>
  THEN [blocks |-> blocks, processedElements |-> processedElements]
  ELSE IF ~Unclaimed(Head(headings), processedElements)
  THEN HeadingBlocks(doc, Tail(headings), processedElements, blocks)
  ELSE ClaimSection(doc, Tail(headings), processedElements, blocks,
                    extractSectionFromHeading(doc, Head(headings)))

\* identifyContentBlocks, lines 561..571: the loop over the elements that a
\* semantic selector matches (the SECTION elements).
RECURSIVE LandmarkBlocks(_, _, _, _)
LandmarkBlocks(doc, landmarks, processedElements, blocks) ==
  IF landmarks = <<>>
  THEN [blocks |-> blocks, processedElements |-> processedElements]
  ELSE IF /\ Head(landmarks) \notin processedElements
          /\ Chars(doc, TextElements(doc, Head(landmarks))) > MinBlock
  THEN LandmarkBlocks(doc, Tail(landmarks),
                      processedElements \cup {Head(landmarks)},
                      Append(blocks, extractContentBlock(doc, Head(landmarks))))
  ELSE LandmarkBlocks(doc, Tail(landmarks), processedElements, blocks)

\* findTextBlocks, lines 665..671: the paragraph makes a block.
IsTextBlock(doc, p, processedElements) ==
  /\ p \notin processedElements
  /\ Node(doc, p).text.chars > MinText
  /\ Node(doc, p).text.chars < MaxText
  /\ Node(doc, p).text.words > MinWords

TextBlock(doc, p) ==
  Block(<<>>, {p}, <<p>>, "text-block", getElementSelector(doc, p))

TextBlocksOf(doc, paragraphs) ==
  [i \in 1..Len(paragraphs) |-> TextBlock(doc, paragraphs[i])]

findTextBlocks(doc, processedElements) ==
  TextBlocksOf(doc, SelectSeq(SelectAll(doc, {"P"}),
                              LAMBDA p : IsTextBlock(doc, p, processedElements)))

\* identifyContentBlocks, lines 574..577
WithTextBlocks(doc, found) ==
  found.blocks \o findTextBlocks(doc, found.processedElements)

\* identifyContentBlocks, lines 555..577
WithLandmarks(doc, found) ==
  WithTextBlocks(doc, LandmarkBlocks(doc, SelectAll(doc, {"SECTION"}),
                                     found.processedElements, found.blocks))

identifyContentBlocks(doc) ==
  WithLandmarks(doc, HeadingBlocks(doc, SelectAll(doc, HeadingTags), {}, <<>>))

\* The elements whose text the content of a block is made of: its heading,
\* its text (and its links: none here).
ContentElements(block) ==
  block.text \cup (IF block.heading = <<>> THEN {} ELSE {block.heading})

\* extractContentForEmbedding(block).length: the heading, if an element gives
\* it, and the text, joined by blanks and with the white space collapsed.
ContentLength(doc, block) ==
  IF block.heading = <<>> THEN Chars(doc, block.text)
  ELSE IF block.text = {} THEN Node(doc, block.heading).text.chars
  ELSE Node(doc, block.heading).text.chars + 1 + Chars(doc, block.text)

\* createSemanticSection(block, index); the section of index i has the id
\* i + 1 (`semantic-section-${i}`), and keeps here the elements of its block.
createSemanticSection(doc, block, index) ==
  [id |-> index + 1, pass |-> 1, selector |-> block.selector,
   len |-> ContentLength(doc, block), heading |-> block.heading,
   type |-> block.type, content |-> ContentElements(block),
   elements |-> block.elements]

\* extractSemanticSections, lines 528..529
MadeSections(doc, contentBlocks) ==
  [i \in 1..Len(contentBlocks) |->
     createSemanticSection(doc, contentBlocks[i], i - 1)]

\* extractSemanticSections, lines 530..532
KeptSections(made) == SelectSeq(made, LAMBDA section : section.len > MinContent)

extractSemanticSections(doc) ==
  KeptSections(MadeSections(doc, identifyContentBlocks(doc)))

\* document.querySelector(selector): the first element, in document order,
\* that the selector matches, or <<>> (null).
FirstOf(matches) == IF matches = <<>> THEN <<>> ELSE Head(matches)

querySelector(doc, selector) ==
  FirstOf(SelectSeq(PathsFrom(doc, 1),
                    LAMBDA el : getElementSelector(doc, el) = selector))

\* A scroll that reports success whether the element is there or not.
ScrollAnyway(selector, size, element) ==
  PageDid("scroll", <<>>, <<>>, selector, size, element, element, "ok", "none")

\* scrollToSection, lines 356..365, with the element of the selector; the
\* element highlightElement(selector) finds is the same one.
ScrollTo(selector, size, element) ==
  IF element # <<>>
  THEN PageDid("scroll", <<>>, <<>>, selector, size, element, element, "ok",
               "none")
  ELSE PageDid("scroll", <<>>, <<>>, selector, size, <<>>, <<>>, "error",
               "Element not found")

\* scrollToSection(params): params holds a selector (<<>> if it holds none)
\* and, or, coordinates; <<0>> stands for the window.
scrollToSection(doc, selector, coordinates, size) ==
  IF selector # <<>>
  THEN ScrollTo(selector, size, querySelector(doc, selector))
  ELSE IF coordinates
  THEN PageDid("scroll", <<>>, <<>>, selector, size, <<0>>, <<>>, "ok", "none")
  ELSE PageDid("scroll", <<>>, <<>>, selector, size, <<>>, <<>>, "error",
               "Either selector or coordinates must be provided")

\* The selectors scrollToSection is given.
TriedSelectors ==
  { <<tag, n>> : tag \in {"H1", "H2", "P", "DIV", "SECTION"}, n \in 1..MaxKids }

\* The rendered size of the element a selector matches.
Sizes == {"zero", "visible"}

InitPage ==
  /\ message = <<>>
  /\ webCommand = NotParsed
  /\ InitBot
  /\ document \in Documents

\* extractSemanticSections()
ExtractSemanticSections ==
  /\ ~isTyping
  /\ page' = PageDid("extract", extractSemanticSections(document),
                     MadeSections(document, identifyContentBlocks(document)),
                     <<>>, "none", <<>>, <<>>, "ok", "none")
  /\ UNCHANGED <<parseVars, botVars, call, document, waiting, moreVars>>

\* scrollToSection(params)
ScrollToSection ==
  \E selector \in TriedSelectors \cup {<<>>}, coordinates \in BOOLEAN,
     size \in Sizes :
    /\ ~isTyping
    /\ page' = scrollToSection(document, selector, coordinates, size)
    /\ UNCHANGED <<parseVars, botVars, call, document, waiting, moreVars>>

\* processContentSections(sections) is called with the sections that
\* extractSemanticSections returned, or with the sections of all the blocks.
ProcessPageSections ==
  \E list \in {page.sections, page.made} :
    /\ ~isTyping
    /\ page.op = "extract"
    /\ pass < MaxPasses
    /\ pass' = pass + 1
    /\ isTyping' = TRUE
    /\ toProcess' = list
    /\ processedSections' = <<>>
    /\ requestLog' = <<>>
    /\ answered' = <<>>
    /\ call' = Called("processContentSections", call.n + 1, <<>>, list, 0,
                      <<>>, <<>>, <<>>, <<>>)
    /\ UNCHANGED <<parseVars, panelVars, semanticSections, slotVars,
                   cacheVars, reply, searches, document, page, waiting, moreVars>>

NextPage ==
  \/ ExtractSemanticSections
  \/ ScrollToSection

SpecPage == InitPage /\ [][NextPage]_vars

\* The segmenter and processContentSections, one after the other.
NextEmbed ==
  \/ ExtractSemanticSections
  \/ ProcessPageSections
  \/ EmbedSection
  \/ SectionsProcessed

SpecEmbed == InitPage /\ [][NextEmbed]_vars

-----------------------------------------------------------------------------
(* SemanticSearch on its own: processContentSections and semanticSearch     *)
(* called directly, with any maxResults.                                     *)

\* semanticSearch is called directly at most this many times.
MaxCalls == 3

\* The values of maxResults of the direct calls.
MaxResultsValues == {1, 2, DefaultMaxResults}

\* The queries of the direct calls; the last one ends like a cache key.
Queries == { <<"tuition">>, <<"costs">>, <<"tuition", "_", 1>> }

InitRank ==
  /\ message = <<>>
  /\ webCommand = NotParsed
  /\ InitBot
  /\ document = <<>>

\* processContentSections(sections) is called with what a pass of the
\* segmenter returned.
ProcessContentSections ==
  /\ ~isTyping
  /\ pass < MaxPasses
  /\ pass' = pass + 1
  /\ isTyping' = TRUE
  /\ \E list \in PassSections(pass + 1) : toProcess' = list
  /\ processedSections' = <<>>
  /\ requestLog' = <<>>
  /\ answered' = <<>>
  /\ UNCHANGED <<partVars, parseVars, panelVars, semanticSections, slotVars,
                 cacheVars, reply, searches>>

\* The lists ranked so far, after a call that returned r: the call ranked
\* if it asked the provider and left an entry in the query cache.
Ranked(query, sections, r, computed) ==
  IF r.asked # <<>> /\ CacheKey(query, sections) \in DOMAIN r.cache
  THEN MapSet(computed, <<query, Len(sections)>>, r.results)
  ELSE computed

\* What a direct call of semanticSearch leaves, given what it returned.
SearchCalled(query, maxResults, r) ==
  /\ searchCache' = r.cache
  /\ call' = Called("semanticSearch", call.n + 1, query, semanticSections,
                    maxResults, r.results, r.asked, call.computed,
                    Ranked(query, semanticSections, r, call.computed))

\* semanticSearch(query, sections, maxResults), called directly.
CallSemanticSearch ==
  \E query \in Queries, maxResults \in MaxResultsValues, ok \in BOOLEAN :
    /\ ~isTyping
    /\ call.n < MaxCalls
    /\ SearchCalled(query, maxResults,
                    semanticSearch(query, semanticSections, maxResults,
                                   searchCache, contentEmbeddings, ok))
    /\ UNCHANGED <<parseVars, panelVars, isTyping, semanticSections, slotVars,
                   contentEmbeddings, batchVars, pass, reply, searches,
                   document, page, waiting, moreVars>>

NextRank ==
  \/ ProcessContentSections
  \/ EmbedSection
  \/ SectionsProcessed
  \/ CallSemanticSearch

SpecRank == InitRank /\ [][NextRank]_vars

-----------------------------------------------------------------------------
(* deduplicateResults on its own, called with any list of results. *)

\* A list given to deduplicateResults holds at most this many results.
MaxOccurrences == 3

\* The similarities of the results: 0.3, 0.5 and 0.9.
Scores ==
  { [num |-> 3, den2 |-> 100], [num |-> 5, den2 |-> 100],
    [num |-> 9, den2 |-> 100] }

\* A result of semanticSearch for the section of this id, with this
\* similarity: semanticSearch, lines 105..109.
Result(id, similarity) ==
  Scored(<<[section |-> Processed(Section(id, 1), ContentVector(Section(id, 1))),
            similarity |-> similarity]>>)[1]

ResultLists ==
  UNION { [1..n -> { Result(id, sim) : id \in SectionIds, sim \in Scores }] :
            n \in 1..MaxOccurrences }

\* deduplicateResults(results), called directly.
CallDeduplicateResults ==
  \E results \in ResultLists :
    /\ call.n < MaxCalls
    /\ call' = Called("deduplicateResults", call.n + 1, <<>>, results, 0,
                      deduplicateResults(results), <<>>, <<>>, <<>>)
    /\ UNCHANGED <<parseVars, botVars, document, page, waiting, moreVars>>

NextDedup == CallDeduplicateResults

SpecDedup == InitRank /\ [][NextDedup]_vars

-----------------------------------------------------------------------------
(* getRelevanceLabel, called on its own with every similarity n / Grid of   *)
(* [-1, 1]; the call before it is kept for comparison.                       *)

Grid == 50

\* n / Grid as a similarity: num / sqrt(den2)
Similarity(n) == [num |-> n, den2 |-> Grid * Grid]

\* { relevanceScore, relevanceLabel } of semanticSearch, lines 107..108
Labelled(similarity) ==
  [relevanceScore |-> similarity,
   relevanceLabel |-> getRelevanceLabel(similarity)]

CallGetRelevanceLabel ==
  \E n \in (0 - Grid)..Grid :
    /\ call.n < MaxCalls
    /\ call' = Called("getRelevanceLabel", call.n + 1, <<>>, <<>>, 0,
                      <<Labelled(Similarity(n))>>, <<>>, call.results, <<>>)
    /\ UNCHANGED <<parseVars, botVars, document, page, waiting, moreVars>>

NextLabel == CallGetRelevanceLabel

SpecLabel == InitRank /\ [][NextLabel]_vars

-----------------------------------------------------------------------------
(* waitForElement of the content script, while the page changes the child   *)
(* list of its body.                                                         *)

MaxWaits == 2

\* The selectors waited for, and the timeouts given (<<>>: none).
WaitSelectors == { <<"P", 1>>, <<"H2", 1>>, <<"P", 2>> }

Timeouts == { <<>>, <<100>> }

\* const { selector, timeout = 5000 } = params
TimeoutOf(given) == IF given = <<>> THEN DefaultTimeout ELSE given[1]

\* The documents of headings and paragraphs.
FlatDocuments == UNION { [1..n -> Leaves] : n \in 0..MaxNodes }

InitWait ==
  /\ message = <<>>
  /\ webCommand = NotParsed
  /\ InitBot
  /\ document \in FlatDocuments

\* waitForElement, lines 421..429, with the element of the selector
WaitFound(n, selector, timeout, element) ==
  Wait(n, selector, timeout, Settle(Pending, Found(selector, element)),
       FALSE, FALSE, <<Found(selector, element)>>, TRUE, FALSE)

\* waitForElement, lines 431..455: the observer is connected and the timer
\* is started
WaitStarted(n, selector, timeout) ==
  Wait(n, selector, timeout, Pending, TRUE, TRUE, <<>>, FALSE, FALSE)

\* waitForElement(params), once the wait before it is over.
WaitForElement ==
  \E selector \in WaitSelectors, given \in Timeouts :
    /\ waiting.n < MaxWaits
    /\ ~waiting.timer
    /\ waiting' =
         IF querySelector(document, selector) # <<>>
         THEN WaitFound(waiting.n + 1, selector, TimeoutOf(given),
                        querySelector(document, selector))
         ELSE WaitStarted(waiting.n + 1, selector, TimeoutOf(given))
    /\ UNCHANGED <<parseVars, botVars, call, document, page, moreVars>>

\* The documents after the page has appended a child to the body or removed
\* one.
Mutations(doc) ==
  { Append(doc, leaf) : leaf \in IF Len(doc) < MaxNodes THEN Leaves ELSE {} }
    \cup { SubSeq(doc, 1, i - 1) \o SubSeq(doc, i + 1, Len(doc)) :
             i \in 1..Len(doc) }

\* The callback of the MutationObserver, lines 431..441, with the element of
\* the selector in the changed document.
Observed(w, element) ==
  IF w.observing /\ element # <<>>
  THEN [w EXCEPT !.observing = FALSE,
                 !.promise = Settle(w.promise, Found(w.selector, element)),
                 !.resolves = Append(w.resolves, Found(w.selector, element)),
                 !.seen = TRUE]
  ELSE [w EXCEPT !.seen = w.seen \/ (w.timer /\ element # <<>>)]

\* The page changes the child list of the body; the observer, if connected,
\* is called back.
Mutation ==
  \E doc \in Mutations(document) :
    /\ document' = doc
    /\ waiting' = Observed(waiting, querySelector(doc, waiting.selector))
    /\ UNCHANGED <<parseVars, botVars, call, page, moreVars>>

\* The callback of setTimeout, lines 447..454.
TimerFires ==
  /\ waiting.timer
  /\ waiting' = [waiting EXCEPT
                   !.timer = FALSE,
                   !.observing = FALSE,
                   !.promise = Settle(waiting.promise, TimedOut(waiting.selector)),
                   !.resolves = Append(waiting.resolves, TimedOut(waiting.selector)),
                   !.elapsed = TRUE]
  /\ UNCHANGED <<parseVars, botVars, call, document, page, moreVars>>

NextWait ==
  \/ WaitForElement
  \/ Mutation
  \/ TimerFires

\* The browser runs the callback of a timer that was started.
SpecWait == InitWait /\ [][NextWait]_vars /\ WF_vars(TimerFires)

-----------------------------------------------------------------------------
(* The service worker's message handler.  A response is the set of the     *)
(* fields it carries and the value of success (FALSE if it carries none).    *)

Response(fields, success) == [fields |-> fields, success |-> success]

WorkerActions ==
  { "pageLoaded", "getStorageData", "setStorageData", "openSidePanel",
    "mcpCall", "getMCPStatus", "unknown" }

\* handleMessage: the actions answered once a promise has settled
Deferred == { "getStorageData", "setStorageData", "mcpCall" }

\* handleMessage: the responses sent before it returns
SentAtOnce(action) ==
  CASE action \in Deferred -> <<>>
    [] action \in {"pageLoaded", "openSidePanel"} ->
         <<Response({"success"}, TRUE)>>
    [] action = "getMCPStatus" -> <<Response({"connected"}, FALSE)>>
    [] OTHER -> <<Response({"error"}, FALSE)>>

\* handleMessage: the responses sent when the promise of getStorageData,
\* setStorageData or handleMCPCall has settled, ok if the storage or browser
\* call behind it succeeded.  getStorageData resolves either way, and a
\* rejection of setStorageData has no handler.
SentLater(action, ok) ==
  CASE action = "getStorageData" ->
         IF ok THEN <<Response({"success", "data"}, TRUE)>>
         ELSE <<Response({"success", "error"}, FALSE)>>
    [] action = "setStorageData" ->
         IF ok THEN <<Response({"success"}, TRUE)>> ELSE <<>>
    [] OTHER ->
         IF ok THEN <<Response({"success", "data"}, TRUE)>>
         ELSE <<Response({"success", "error"}, FALSE)>>

\* The listener of chrome.runtime.onMessage gets a request: handleMessage
\* runs to its end and the channel is kept open.
HandleMessage ==
  \E action \in WorkerActions :
    /\ call.n < MaxCalls
    /\ call.asked = <<>>
    /\ call' = Called("handleMessage", call.n + 1, <<action>>, <<>>, 0,
                      SentAtOnce(action),
                      IF action \in Deferred THEN <<action>> ELSE <<>>,
                      call.earlier \o call.query, <<>>)
    /\ UNCHANGED <<parseVars, botVars, document, page, waiting, moreVars>>

\* The promise handleMessage waits for settles.
PromiseSettles ==
  \E ok \in BOOLEAN :
    /\ call.fn = "handleMessage"
    /\ call.asked # <<>>
    /\ call' = [call EXCEPT !.results = call.results \o SentLater(call.asked[1], ok),
                            !.asked = <<>>]
    /\ UNCHANGED <<parseVars, botVars, document, page, waiting, moreVars>>

NextWorker ==
  \/ HandleMessage
  \/ PromiseSettles

\* A storage or browser call that was started settles.
SpecWorker == InitRank /\ [][NextWorker]_vars /\ WF_vars(PromiseSettles)

-----------------------------------------------------------------------------
(* extractSearchTerms, called on its own with requests of a few words. *)

MaxRequestWords == 3

MaxTrailing == 1

RequestWords == {"scroll", "find", "to", "about", "tuition"}

\* The requests: up to MaxRequestWords words, one to MaxBlanks blanks between
\* neighbours, and up to MaxTrailing blanks at the end.
Requests ==
  { Join(ws, n) \o Blanks(t) :
      ws \in UNION { [1..k -> RequestWords] : k \in 0..MaxRequestWords },
      n \in 1..MaxBlanks, t \in 0..MaxTrailing }

\* extractSearchTerms of every request
TermsOf == [userRequest \in Requests |-> extractSearchTerms(userRequest)]

\* extractSearchTerms(userRequest), called directly.
CallExtractSearchTerms ==
  \E userRequest \in Requests :
    /\ call.n < MaxCalls
    /\ call' = Called("extractSearchTerms", call.n + 1, userRequest, <<>>, 0,
                      TermsOf[userRequest], <<>>, <<>>, <<>>)
    /\ UNCHANGED <<parseVars, botVars, document, page, waiting, moreVars>>

NextTerms == CallExtractSearchTerms

SpecTerms == InitRank /\ [][NextTerms]_vars

-----------------------------------------------------------------------------
(* semanticSearch called with candidates of which the instance may hold no  *)
(* embedding: processed sections of any pass, whatever the batches of this  *)
(* instance have embedded.                                                   *)

\* The searches of a run.
MaxMisses == 1

CandidateLists ==
  { [i \in 1..Len(list) |-> Processed(list[i], ContentVector(list[i]))] :
      list \in UNION { PassSections(p) : p \in 1..MaxPasses } }

\* semanticSearch(query, sections, maxResults), called directly; the record
\* of the call keeps the embeddings the instance held (computed).
CallSemanticSearchOn ==
  \E query \in Queries, sections \in CandidateLists,
     maxResults \in MaxResultsValues, ok \in BOOLEAN :
    /\ ~isTyping
    /\ call.n < MaxMisses
    /\ searchCache' = semanticSearch(query, sections, maxResults, searchCache,
                                     contentEmbeddings, ok).cache
    /\ call' = Called("semanticSearch", call.n + 1, query, sections, maxResults,
                      semanticSearch(query, sections, maxResults, searchCache,
                                     contentEmbeddings, ok).results,
                      semanticSearch(query, sections, maxResults, searchCache,
                                     contentEmbeddings, ok).asked,
                      <<>>, contentEmbeddings)
    /\ UNCHANGED <<parseVars, panelVars, isTyping, semanticSections, slotVars,
                   contentEmbeddings, batchVars, pass, reply, searches,
                   document, page, waiting, moreVars>>

NextMiss ==
  \/ ProcessContentSections
  \/ EmbedSection
  \/ SectionsProcessed
  \/ CallSemanticSearchOn

SpecMiss == InitRank /\ [][NextMiss]_vars

-----------------------------------------------------------------------------
(* findMostRelevantSections, called with the sections of a page of up to    *)
(* MaxCandidates sections that a batch has embedded.                         *)

MaxCandidates == 6

\* The sections processContentSections returned for the first n sections of
\* pass p, and the embeddings it stored for them.
ProcessedPage(n, p) ==
  [i \in 1..n |-> Processed(Section(i, p), ContentVector(Section(i, p)))]

EmbeddingsOf(n, p) == [id \in 1..n |-> ContentVector(Section(id, p))]

\* The requests: one term, or a scroll term and a find term.
FindRequests ==
  { <<"tuition">>,
    <<"find", SP, "costs">>,
    <<"scroll", SP, "to", SP, "tuition", SP, "find", SP, "costs">>,
    <<"scroll", SP, "to", SP, "costs", SP, "find", SP, "tuition">>,
    <<"find", SP, "tuition", SP, "scroll", SP, "to", SP, "costs">> }

\* The side panel after a batch that embedded every section of the page.
InitFind ==
  /\ message = <<>>
  /\ webCommand = NotParsed
  /\ document = <<>>
  /\ initialized = FALSE
  /\ mcpChecked = FALSE
  /\ mcpEnabled = FALSE
  /\ semanticSearchInstance = "null"
  /\ isTyping = FALSE
  /\ \E n \in 0..MaxCandidates, p \in 1..MaxPasses :
       /\ semanticSections = ProcessedPage(n, p)
       /\ contentEmbeddings = EmbeddingsOf(n, p)
       /\ pass = p
  /\ currentSearchResults = <<>>
  /\ currentSemanticResults = <<>>
  /\ searchCache = EmptyMap
  /\ toProcess = <<>>
  /\ processedSections = <<>>
  /\ reply = Reply("none", "none")
  /\ requestLog = <<>>
  /\ answered = <<>>
  /\ searches = NoSearches
  /\ call = NoCall
  /\ page = NoPage
  /\ waiting = NotWaiting
  /\ InitMore

\* What a direct call of findMostRelevantSections leaves: the record of the
\* call keeps the results of the terms, one list after the other (earlier).
FindCalled(userRequest, found, relevant) ==
  /\ searchCache' = relevant.cache
  /\ call' = Called("findMostRelevantSections", call.n + 1, userRequest,
                    semanticSections, 0, relevant.results, <<>>,
                    found.allResults, <<>>)

\* findMostRelevantSections(userRequest, sections), called directly.
CallFindMostRelevantSections ==
  \E userRequest \in FindRequests, oks \in TermOutcomes :
    /\ call.n < MaxCalls
    /\ FindCalled(userRequest,
                  SearchTerms(extractSearchTerms(userRequest), 1,
                              semanticSections, searchCache, contentEmbeddings,
                              oks, <<>>),
                  findMostRelevantSections(userRequest, semanticSections,
                                           searchCache, contentEmbeddings, oks))
    /\ UNCHANGED <<parseVars, panelVars, isTyping, semanticSections, slotVars,
                   contentEmbeddings, batchVars, pass, reply, searches,
                   document, page, waiting, moreVars>>

NextFind == CallFindMostRelevantSections

SpecFind == InitFind /\ [][NextFind]_vars

-----------------------------------------------------------------------------
(* calculateCosineSimilarity, called with every pair of small vectors of   *)
(* one dimension, in both orders.                                            *)

MaxDimension == 2

MaxComponent == 2

Vectors(d) == [1..d -> (0 - MaxComponent)..MaxComponent]

\* calculateCosineSimilarity(vecA, vecB) and calculateCosineSimilarity(vecB,
\* vecA), called directly.
CallCalculateCosineSimilarity ==
  \E d \in 1..MaxDimension :
    \E vecA \in Vectors(d), vecB \in Vectors(d) :
      /\ call.n < MaxCalls
      /\ call' = Called("calculateCosineSimilarity", call.n + 1, vecA, vecB, 0,
                        << calculateCosineSimilarity(vecA, vecB),
                           calculateCosineSimilarity(vecB, vecA) >>,
                        <<>>, <<>>, <<>>)
      /\ UNCHANGED <<parseVars, botVars, document, page, waiting, moreVars>>

NextCosine == CallCalculateCosineSimilarity

SpecCosine == InitRank /\ [][NextCosine]_vars

-----------------------------------------------------------------------------
(* processContentSections with the request for an embedding and its answer *)
(* as two steps: the request of the section is in flight between them.       *)

\* A loop that goes on to the next section while a request is in flight.
NotAwaited(log, ans) == TRUE

\* processContentSections, line 47: await this.generateEmbedding(content);
\* the loop goes on once every request issued has settled.
Awaited(log, ans) == Len(ans) = Len(log)

\* Lines 44..47: the loop reaches a section with content of more than 50
\* characters and generateEmbedding sends the request for it.
IssueRequest ==
  /\ isTyping
  /\ toProcess # <<>>
  /\ Awaited(requestLog, answered)
  /\ Embeddable(Head(toProcess))
  /\ requestLog' = Append(requestLog, Head(toProcess))
  /\ toProcess' = Tail(toProcess)
  /\ UNCHANGED <<partVars, parseVars, panelVars, isTyping, semanticSections,
                 slotVars, cacheVars, processedSections, answered, pass, reply,
                 searches>>

\* Lines 44..46: the loop passes a section with content of 50 characters or
\* less.
PassSection ==
  /\ isTyping
  /\ toProcess # <<>>
  /\ Awaited(requestLog, answered)
  /\ ~Embeddable(Head(toProcess))
  /\ toProcess' = Tail(toProcess)
  /\ UNCHANGED <<partVars, parseVars, panelVars, isTyping, semanticSections,
                 slotVars, cacheVars, processedSections, requestLog, answered,
                 pass, reply, searches>>

\* Lines 47..55: the oldest request in flight settles, with an embedding (ok)
\* or with null.
RequestSettles ==
  \E ok \in BOOLEAN :
    /\ isTyping
    /\ Len(answered) < Len(requestLog)
    /\ answered' = Append(answered, ok)
    /\ IF ok
       THEN /\ contentEmbeddings' =
                 MapSet(contentEmbeddings, requestLog[Len(answered) + 1].id,
                        ContentVector(requestLog[Len(answered) + 1]))
            /\ processedSections' =
                 Append(processedSections,
                        Processed(requestLog[Len(answered) + 1],
                                  ContentVector(requestLog[Len(answered) + 1])))
       ELSE UNCHANGED <<contentEmbeddings, processedSections>>
    /\ UNCHANGED <<partVars, parseVars, panelVars, isTyping, semanticSections,
                   slotVars, searchCache, toProcess, requestLog, pass, reply,
                   searches>>

\* Line 59 and processSemanticSections, line 887: the loop is over, no
\* request is in flight, and the caller keeps the sections returned.
BatchReturns ==
  /\ isTyping
  /\ toProcess = <<>>
  /\ Len(answered) = Len(requestLog)
  /\ semanticSections' = processedSections
  /\ isTyping' = FALSE
  /\ UNCHANGED <<partVars, parseVars, panelVars, slotVars, cacheVars, batchVars,
                 pass, reply, searches>>

NextBatch ==
  \/ ExtractSemanticSections
  \/ ProcessPageSections
  \/ IssueRequest
  \/ PassSection
  \/ RequestSettles
  \/ BatchReturns

SpecBatch == InitPage /\ [][NextBatch]_vars

-----------------------------------------------------------------------------
(* scrollToSection with the highlight it triggers.  highlight keeps, for    *)
(* each element highlighted, the inline style it had before (before), the   *)
(* one it has (now) and the timers of highlightElement that are pending.     *)

\* An element has at most this many timers pending.
MaxTimers == 2

\* The inline border and background that the page gave an element.
InlineStyles == { NoStyle, Style("1px solid #000000", "#eeeeee") }

\* The style of the element before a highlight: its inline style if no
\* highlight has touched it, else what the earlier highlights left.
StyleBefore(h, element, inline) ==
  IF element \notin DOMAIN h.now THEN inline
  ELSE IF h.timers[element] = 0 THEN h.now[element]
  ELSE h.before[element]

TimersOf(h, element) ==
  IF element \in DOMAIN h.timers THEN h.timers[element] ELSE 0

\* highlightElement(selector), lines 143..149, for the element of the
\* selector: the styles are set and a timer is started.
highlightElement(h, element, inline) ==
  [before |-> MapSet(h.before, element, StyleBefore(h, element, inline)),
   now |-> MapSet(h.now, element, Highlighted),
   timers |-> MapSet(h.timers, element, TimersOf(h, element) + 1)]

\* scrollToSection(params) with a selector: scrollIntoView, then
\* highlightElement, if the selector matches an element.
ScrollAndHighlight ==
  \E selector \in WaitSelectors, inline \in InlineStyles :
    /\ TimersOf(highlight, querySelector(document, selector)) < MaxTimers
    /\ page' = scrollToSection(document, selector, FALSE, "visible")
    /\ highlight' =
         IF querySelector(document, selector) # <<>>
         THEN highlightElement(highlight, querySelector(document, selector),
                               inline)
         ELSE highlight
    /\ UNCHANGED <<parseVars, botVars, call, document, waiting, chat, marks,
                   boot>>

\* The callback of setTimeout in highlightElement, lines 146..149, 3000 ms
\* after a highlight of the element.
HighlightEnds ==
  \E element \in DOMAIN highlight.timers :
    /\ highlight.timers[element] > 0
    /\ highlight' =
         [highlight EXCEPT !.now[element] = NoStyle,
                           !.timers[element] = highlight.timers[element] - 1]
    /\ UNCHANGED <<parseVars, botVars, call, document, page, waiting, chat,
                   marks, boot>>

NextHighlight ==
  \/ ScrollAndHighlight
  \/ HighlightEnds

SpecHighlight == InitWait /\ [][NextHighlight]_vars

-----------------------------------------------------------------------------
(* handleSendMessage with its awaits as separate steps.  chat.flights holds  *)
(* the calls of handleSendMessage that are awaiting handleWebCommand or      *)
(* sendToGroq, each with the message it handles and, for sendToGroq, the     *)
(* messages of the request body.  A message's content is a number that no    *)
(* other message of the conversation has.                                    *)

\* handleSendMessage is called at most this many times.
MaxSends == 4

\* The chat history in storage holds at most this many messages.
MaxStored == 11

\* sendToGroq, line 424: this.messages.slice(-10)
RecentMessages == 10

\* addMessage, lines 455..459, without the timestamp.
Message(role, content) == [role |-> role, content |-> content]

\* Array.prototype.slice(-n)
SliceEnd(xs, n) ==
  SubSeq(xs, IF Len(xs) > n THEN Len(xs) - n + 1 ELSE 1, Len(xs))

\* sendToGroq(message): the messages of the request body, lines 423..429.
RequestMessages(messages, content) ==
  Append(SliceEnd(messages, RecentMessages), Message("user", content))

Flight(content, command, at, request) ==
  [content |-> content, command |-> command, at |-> at, request |-> request]

\* addMessage(role, content): this.messages.push(message)
addMessage(c, role) ==
  [c EXCEPT !.messages = Append(c.messages, Message(role, c.made + 1)),
            !.made = c.made + 1]

\* hideTypingIndicator, lines 559..570, for the send button.
hideTypingIndicator(c) == [c EXCEPT !.disabled = FALSE]

\* What handleSendMessage and handleMessage leave alone.
sendOthers ==
  <<parseVars, panelVars, semanticSections, slotVars, cacheVars, batchVars,
    pass, reply, searches, call, document, page, waiting, highlight, marks,
    boot>>

\* loadChatHistory, lines 276..277, with the history that storage holds.
HistoryLoaded ==
  \E n \in 0..MaxStored :
    /\ initialized
    /\ ~chat.loaded
    /\ chat.made = 0
    /\ chat' = [chat EXCEPT !.loaded = TRUE,
                            !.messages = [i \in 1..n |->
                              Message(IF i % 2 = 1 THEN "user" ELSE "assistant", i)],
                            !.made = n]
    /\ UNCHANGED <<isTyping, sendOthers>>

\* handleSendMessage up to its await, lines 379..408: with an empty message
\* or while isTyping it returns; else the message is added, the button
\* disabled, the indicator shown and handleWebCommand (command: the message
\* is a web command and mcpEnabled) or sendToGroq called.
SendMessage ==
  \E empty \in BOOLEAN, command \in {FALSE, mcpEnabled} :
    /\ initialized
    /\ chat.attempts < MaxSends
    /\ IF empty \/ isTyping
       THEN /\ chat' = [chat EXCEPT !.attempts = chat.attempts + 1]
            /\ UNCHANGED isTyping
       ELSE /\ chat' =
                 [addMessage(chat, "user") EXCEPT
                    !.attempts = chat.attempts + 1,
                    !.disabled = TRUE,
                    !.flights = Append(chat.flights,
                      Flight(chat.made + 1, command, Len(chat.messages) + 1,
                             IF command THEN <<>>
                             ELSE RequestMessages(
                                    addMessage(chat, "user").messages,
                                    chat.made + 1)))]
            /\ isTyping' = TRUE
    /\ UNCHANGED sendOthers

\* handleSendMessage after its await, lines 403..417: the answer, or the
\* error caught, is added as a message of the assistant.
SendSettles ==
  \E i \in DOMAIN chat.flights :
    /\ chat' = [addMessage(hideTypingIndicator(chat), "assistant") EXCEPT
                  !.flights = [j \in 1..(Len(chat.flights) - 1) |->
                                 IF j < i THEN chat.flights[j]
                                 ELSE chat.flights[j + 1]]]
    /\ isTyping' = FALSE
    /\ UNCHANGED sendOthers

\* The actions of the messages that handleMessage has a case for, and one
\* that it has none for.
PanelActions == {"llmResponse", "chatError", "tabUpdated"}

MaxPanelMessages == 2

Heard(c) == [c EXCEPT !.heard = c.heard + 1]

\* handleMessage(request), lines 245..270; an llmResponse comes with a
\* response or without one.
PanelMessage ==
  \E action \in PanelActions, response \in BOOLEAN :
    /\ initialized
    /\ chat.heard < MaxPanelMessages
    /\ IF action = "llmResponse"
       THEN /\ chat' = IF response
                       THEN addMessage(hideTypingIndicator(Heard(chat)),
                                       "assistant")
                       ELSE hideTypingIndicator(Heard(chat))
            /\ isTyping' = FALSE
       ELSE IF action = "chatError"
       THEN /\ chat' = addMessage(hideTypingIndicator(Heard(chat)),
                                  "assistant")
            /\ isTyping' = FALSE
       ELSE /\ chat' = Heard(chat)
            /\ UNCHANGED isTyping
    /\ UNCHANGED sendOthers

NextSend ==
  \/ ChatBotInit
  \/ CheckMCPStatus
  \/ HistoryLoaded
  \/ SendMessage
  \/ SendSettles
  \/ PanelMessage

SpecSend == Init /\ [][NextSend]_vars

-----------------------------------------------------------------------------
(* A 'scroll to <target>' message from the side panel to the page:           *)
(* handleSendMessage, handleWebCommand, executeMCPAction, the content        *)
(* script's handleMCPPageAction and scrollToSection, formatScrollResponse.   *)

\* The text of a selector, as the user types it.
SelectorText(selector) ==
  CASE selector = <<"P", 1>> -> "p:nth-of-type(1)"
    [] selector = <<"H2", 1>> -> "h2:nth-of-type(1)"
    [] selector = <<"P", 2>> -> "p:nth-of-type(2)"

\* document.querySelector(text): the selector that a text is read as.
SelectorFrom(text) ==
  IF \E selector \in WaitSelectors : <<SelectorText(selector)>> = text
  THEN CHOOSE selector \in WaitSelectors : <<SelectorText(selector)>> = text
  ELSE <<>>

ScrollUtterances ==
  { Join(<<"scroll", "to", SelectorText(selector)>>, 1) :
      selector \in WaitSelectors }

\* handleWebCommand, line 705: the params of executeMCPAction for the case
\* 'scrollToSection': { query: command.params.query }; <<>> is undefined.
ScrollParams(command) == [query |-> command.query, selector |-> <<>>]

\* scrollToSection, line 353: const { selector, x, y, behavior } = params
SelectorOf(params) ==
  IF params.selector = <<>> THEN <<>> ELSE SelectorFrom(params.selector)

\* formatScrollResponse(result), with the result of the page's
\* scrollToSection: response.data is undefined when it threw.
formatScrollResponse(result) ==
  IF result.outcome = "ok" THEN "scrolledToSection" ELSE "failedToScroll"

\* handleSendMessage for a message 'scroll to <selector>' while web
\* interaction is enabled, with the parts it calls.
ScrollCommand ==
  \E u \in ScrollUtterances :
    /\ initialized
    /\ mcpEnabled
    /\ ~isTyping
    /\ parseWebCommand(u).kind = "cmd"
    /\ parseWebCommand(u).action = "scrollToSection"
    /\ message' = u
    /\ webCommand' = parseWebCommand(u)
    /\ page' = scrollToSection(document,
                               SelectorOf(ScrollParams(parseWebCommand(u))),
                               FALSE, "visible")
    /\ reply' = Answer(formatScrollResponse(page'), page'.outcome, "cmd",
                       "command", <<"scrollToSection">>)
    /\ UNCHANGED <<panelVars, isTyping, semanticSections, slotVars, cacheVars,
                   batchVars, pass, searches, call, document, waiting,
                   moreVars>>

NextScroll ==
  \/ ChatBotInit
  \/ CheckMCPStatus
  \/ ScrollCommand

SpecScroll == InitWait /\ [][NextScroll]_vars

-----------------------------------------------------------------------------
(* Segmentation passes over a document that changes between them.  The     *)
(* document is a list of headings and paragraphs; marks.ids gives the id     *)
(* attribute of each of them: n for 'semantic-section-<n - 1>', 0 for none.  *)

\* The document changes at most this many times.
MaxChanges == 2

\* The id attribute of child k of the body.
IdOf(ids, k) == IF k \in DOMAIN ids THEN ids[k] ELSE 0

\* The id attributes of the n children of the body.
IdsOf(ids, n) == [k \in 1..n |-> IdOf(ids, k)]

\* createSemanticSection, lines 690..692: the id is written to the first
\* element of the block if that element has none.
WriteId(ids, block, index) ==
  IF block.elements # <<>> /\ ids[block.elements[1][1]] = 0
  THEN [ids EXCEPT ![block.elements[1][1]] = index + 1]
  ELSE ids

\* extractSemanticSections, lines 528..529: contentBlocks.forEach, from the
\* block of this index on.
RECURSIVE WriteIds(_, _, _)
WriteIds(ids, contentBlocks, index) ==
  IF index >= Len(contentBlocks) THEN ids
  ELSE WriteIds(WriteId(ids, contentBlocks[index + 1], index), contentBlocks,
                index + 1)

\* The sections of a pass: the id of each, and the id attribute of its root
\* element once the pass is over.
RootIds(ids, contentBlocks) ==
  [i \in 1..Len(contentBlocks) |->
     [id |-> i, root |-> IF contentBlocks[i].elements = <<>> THEN 0
                         ELSE ids[contentBlocks[i].elements[1][1]]]]

\* extractSemanticSections() on the document as it is now.
SegmentationPass ==
  /\ marks.passes < MaxPasses
  /\ page' = PageDid("extract", extractSemanticSections(document),
                     MadeSections(document, identifyContentBlocks(document)),
                     <<>>, "none", <<>>, <<>>, "ok", "none")
  /\ marks' =
       [marks EXCEPT
          !.passes = marks.passes + 1,
          !.ids = WriteIds(IdsOf(marks.ids, Len(document)),
                           identifyContentBlocks(document), 0),
          !.sections = RootIds(WriteIds(IdsOf(marks.ids, Len(document)),
                                        identifyContentBlocks(document), 0),
                               identifyContentBlocks(document))]
  /\ UNCHANGED <<parseVars, botVars, call, document, waiting, highlight, chat,
                 boot>>

\* The page inserts an element, without id, as child k of the body.
ElementInserted ==
  \E k \in 1..(Len(document) + 1), leaf \in Leaves :
    /\ marks.changes < MaxChanges
    /\ Len(document) < MaxNodes
    /\ document' = [j \in 1..(Len(document) + 1) |->
                      IF j < k THEN document[j]
                      ELSE IF j = k THEN leaf ELSE document[j - 1]]
    /\ marks' = [marks EXCEPT
                   !.changes = marks.changes + 1,
                   !.ids = [j \in 1..(Len(document) + 1) |->
                              IF j < k THEN IdOf(marks.ids, j)
                              ELSE IF j = k THEN 0
                              ELSE IdOf(marks.ids, j - 1)]]
    /\ UNCHANGED <<parseVars, botVars, call, page, waiting, highlight, chat,
                   boot>>

\* The page removes child k of the body.
ElementRemoved ==
  \E k \in 1..Len(document) :
    /\ marks.changes < MaxChanges
    /\ document' = [j \in 1..(Len(document) - 1) |->
                      IF j < k THEN document[j] ELSE document[j + 1]]
    /\ marks' = [marks EXCEPT
                   !.changes = marks.changes + 1,
                   !.ids = [j \in 1..(Len(document) - 1) |->
                              IF j < k THEN IdOf(marks.ids, j)
                              ELSE IdOf(marks.ids, j + 1)]]
    /\ UNCHANGED <<parseVars, botVars, call, page, waiting, highlight, chat,
                   boot>>

NextIds ==
  \/ SegmentationPass
  \/ ElementInserted
  \/ ElementRemoved

SpecIds == InitWait /\ [][NextIds]_vars

-----------------------------------------------------------------------------
(* ChatBot.init and APIKeyModal.handleSave with their awaits as separate     *)
(* steps, and the chat history in chrome.storage.  A message of the history  *)
(* is a number, the welcome message is Welcome.                              *)

\* handleSave is called at most this many times.
MaxSaves == 3

\* The chat history of an earlier session holds at most this many messages.
MaxHistory == 3

Welcome == 0

\* What init and handleSave leave alone.
bootOthers ==
  <<parseVars, mcpChecked, mcpEnabled, isTyping, semanticSections, slotVars,
    cacheVars, batchVars, pass, reply, searches, call, document, page,
    waiting, highlight, chat, marks>>

\* init() up to its await, lines 181..188: it returns if initialized is set,
\* and else asks chrome.storage for the API key.
InitCalled(b) ==
  IF initialized THEN b
  ELSE [b EXCEPT !.inits = b.inits + 1, !.started = b.started + 1]

\* An earlier session of the side panel left an API key and a chat history in
\* chrome.storage.
EarlierSession ==
  \E n \in 1..MaxHistory :
    /\ ~boot.loaded
    /\ ~boot.key
    /\ boot' = [boot EXCEPT !.key = TRUE,
                            !.stored = [i \in 1..n |-> i],
                            !.before = [i \in 1..n |-> i]]
    /\ UNCHANGED <<initialized, semanticSearchInstance, bootOthers>>

\* The handler of DOMContentLoaded, lines 981..985: new ChatBot(), init().
DOMContentLoaded ==
  /\ ~boot.loaded
  /\ boot' = [InitCalled(boot) EXCEPT !.loaded = TRUE]
  /\ UNCHANGED <<initialized, semanticSearchInstance, bootOthers>>

\* init() after its await, lines 190..209.  Without a key the modal is shown;
\* with one, the listeners are registered, loadChatHistory is called (it asks
\* chrome.storage for the history), then addWelcomeMessage, whose addMessage
\* pushes the message and calls saveChatHistory (it hands this.messages to
\* chrome.storage), and initialized is set.
InitContinues ==
  /\ boot.inits > 0
  /\ IF ~boot.key
     THEN /\ boot' = [boot EXCEPT !.inits = boot.inits - 1, !.modal = TRUE]
          /\ UNCHANGED <<initialized, semanticSearchInstance>>
     ELSE /\ boot' =
               [boot EXCEPT
                  !.inits = boot.inits - 1,
                  !.chatListeners = boot.chatListeners + 1,
                  !.messageListeners = boot.messageListeners + 1,
                  !.loads = boot.loads + 1,
                  !.welcomes = boot.welcomes + 1,
                  !.messages = Append(boot.messages, Welcome),
                  !.writes = Append(boot.writes,
                                    Append(boot.messages, Welcome))]
          /\ initialized' = TRUE
          /\ semanticSearchInstance' \in {"null", "SemanticSearch"}
  /\ UNCHANGED bootOthers

\* handleSave up to its first await, lines 119..126, with a key that
\* validateInput accepts: the modal is shown and its input holds the key.
SaveClicked ==
  /\ boot.modal
  /\ Len(boot.saves) < MaxSaves
  /\ boot' = [boot EXCEPT !.saves = Append(boot.saves, "testing")]
  /\ UNCHANGED <<initialized, semanticSearchInstance, bootOthers>>

\* handleSave after testAPIKey, lines 126..138: a valid key is handed to
\* chrome.storage; else the validation message is shown.
KeyTested ==
  \E i \in DOMAIN boot.saves, isValid \in BOOLEAN :
    /\ boot.saves[i] = "testing"
    /\ boot' = IF isValid
               THEN [boot EXCEPT !.saves[i] = "storing", !.key = TRUE]
               ELSE [boot EXCEPT !.saves[i] = "failed"]
    /\ UNCHANGED <<initialized, semanticSearchInstance, bootOthers>>

\* handleSave after chrome.storage.local.set, lines 131..133: hide(), init().
KeyStored ==
  \E i \in DOMAIN boot.saves :
    /\ boot.saves[i] = "storing"
    /\ boot' = [InitCalled(boot) EXCEPT !.saves[i] = "done", !.modal = FALSE]
    /\ UNCHANGED <<initialized, semanticSearchInstance, bootOthers>>

\* loadChatHistory after its await, lines 274..279, with the history that
\* chrome.storage holds when it answers.
HistoryRead ==
  /\ boot.loads > 0
  /\ boot' = [boot EXCEPT
                !.loads = boot.loads - 1,
                !.messages = IF boot.stored # <<>> THEN boot.stored
                             ELSE boot.messages]
  /\ UNCHANGED <<initialized, semanticSearchInstance, bootOthers>>

\* chrome.storage.local.set of saveChatHistory, line 877, takes effect.
HistoryWritten ==
  /\ boot.writes # <<>>
  /\ boot' = [boot EXCEPT !.writes = Tail(boot.writes),
                          !.stored = Head(boot.writes)]
  /\ UNCHANGED <<initialized, semanticSearchInstance, bootOthers>>

NextBoot ==
  \/ EarlierSession
  \/ DOMContentLoaded
  \/ InitContinues
  \/ SaveClicked
  \/ KeyTested
  \/ KeyStored
  \/ HistoryRead
  \/ HistoryWritten

SpecBoot == Init /\ [][NextBoot]_vars

-----------------------------------------------------------------------------
(* semanticSearch called again and again on the embedded sections of a      *)
(* page, the provider answering or failing; requestLog holds the queries it  *)
(* was asked to embed and answered whether it did.                           *)

\* semanticSearch(query, sections, maxResults), called directly; the record
\* of the call keeps the query cache it found (earlier).
CallSemanticSearchAgain ==
  \E query \in Queries, maxResults \in MaxResultsValues, ok \in BOOLEAN :
    /\ call.n < MaxCalls
    /\ searchCache' = semanticSearch(query, semanticSections, maxResults,
                                     searchCache, contentEmbeddings, ok).cache
    /\ call' = Called("semanticSearch", call.n + 1, query, semanticSections,
                      maxResults,
                      semanticSearch(query, semanticSections, maxResults,
                                     searchCache, contentEmbeddings, ok).results,
                      semanticSearch(query, semanticSections, maxResults,
                                     searchCache, contentEmbeddings, ok).asked,
                      searchCache, <<>>)
    /\ requestLog' =
         requestLog \o semanticSearch(query, semanticSections, maxResults,
                                      searchCache, contentEmbeddings, ok).asked
    /\ answered' =
         IF semanticSearch(query, semanticSections, maxResults, searchCache,
                           contentEmbeddings, ok).asked = <<>>
         THEN answered ELSE Append(answered, ok)
    /\ UNCHANGED <<parseVars, panelVars, isTyping, semanticSections, slotVars,
                   contentEmbeddings, toProcess, processedSections, pass,
                   reply, searches, document, page, waiting, moreVars>>

NextRetry == CallSemanticSearchAgain

SpecRetry == InitFind /\ [][NextRetry]_vars

-----------------------------------------------------------------------------
(* Properties of the command interpreter, checked under SpecParse. *)

Parsed == webCommand # NotParsed

\* The position in msg of its k-th word.
RECURSIVE WordPos(_, _, _)
WordPos(msg, k, i) ==
  IF msg[i] # SP
  THEN IF k = 1 THEN i ELSE WordPos(msg, k - 1, i + 1)
  ELSE WordPos(msg, k, i + 1)

\* The text of msg from its k-th word to its end.
TextFrom(msg, k) == SubSeq(msg, WordPos(msg, k, 1), Len(msg))

LowerWords(msg) == [i \in 1..Len(WordsOf(msg)) |-> Lower(WordsOf(msg)[i])]

\* 'semantic search|find [for] <text>'
IsSemanticForm(msg) ==
  LET w == LowerWords(msg)
  IN  Len(w) >= 3 /\ w[1] = "semantic" /\ w[2] \in {"search", "find"}

SemanticText(msg) ==
  LET w == LowerWords(msg)
  IN  IF w[3] = "for" /\ Len(w) >= 4 THEN TextFrom(msg, 4) ELSE TextFrom(msg, 3)

\* C1: every utterance 'semantic search|find [for] <text>' is interpreted as
\* SemanticSearch with params.query = <text>, trimmed (never as FindSections).
C1_SemanticSearchQuery ==
  (Parsed /\ IsSemanticForm(message))
    => webCommand = CommandQ("semanticSearch", Trim(SemanticText(message)))

ActionSet ==
  { "extractStructuredData", "semanticSearch", "findSections", "semanticScroll",
    "scrollToSection", "scrollToSectionByNumber", "getAllLinks", "navigate",
    "click", "extractFormFields" }

\* C2: for every utterance parseWebCommand returns null or a command of the
\* action set; it never raises an error.
C2_InterpretIsTotal ==
  Parsed => \/ webCommand.kind = "null"
            \/ webCommand.kind = "cmd" /\ webCommand.action \in ActionSet

\* The index of the first word of the free text of an utterance of one of the
\* query-carrying forms 'find|search [for] <text>', 'find content
\* like|about|similar to <text>', 'smart scroll to <text>', 'scroll|go to
\* <text>', 'navigate to <url>', 'click|press <x>'; 0 for any other utterance.
ArgStart(msg) ==
  LET w == LowerWords(msg)
      n == Len(w)
  IN  CASE n >= 2 /\ w[1] \in {"click", "press"} -> 2
        [] n >= 4 /\ w[1] = "smart" /\ w[2] = "scroll" /\ w[3] = "to" -> 4
        [] n >= 3 /\ w[1] \in {"scroll", "go", "navigate"} /\ w[2] = "to" -> 3
        [] n >= 5 /\ w[1] = "find" /\ w[2] = "content" /\ w[3] = "similar"
                  /\ w[4] = "to" -> 5
        [] n >= 4 /\ w[1] = "find" /\ w[2] = "content"
                  /\ w[3] \in {"like", "about"} -> 4
        [] n >= 3 /\ w[1] \in {"find", "search"} /\ w[2] = "for" -> 3
        [] n >= 2 /\ w[1] \in {"find", "search"} -> 2
        [] OTHER -> 0

\* C3: the params.query of the command returned for an utterance of a
\* query-carrying form is the utterance's free text, trimmed, never a keyword.
C3_QueryIsFreeText ==
  (Parsed /\ webCommand.kind = "cmd" /\ webCommand.hasParams
          /\ ArgStart(message) > 0)
    => webCommand.query = Trim(TextFrom(message, ArgStart(message)))

\* 'scroll to section <N>'
IsScrollToSectionN(msg) ==
  LET w == LowerWords(msg)
  IN  Len(w) = 4 /\ w[1] = "scroll" /\ w[2] = "to" /\ w[3] = "section"
      /\ w[4] \in Digits

\* 'go to <http(s) url>'
IsGoToUrl(msg) ==
  LET w == LowerWords(msg)
  IN  Len(w) >= 3 /\ w[1] = "go" /\ w[2] = "to" /\ w[3] \in Urls

\* C4: no general rule shadows a specific one: 'scroll to section <N>' is
\* ScrollToSectionByNumber with query N and 'go to <url>' is Navigate with
\* query <url>.
C4_NoRuleShadowed ==
  /\ (Parsed /\ IsScrollToSectionN(message))
       => webCommand = CommandQ("scrollToSectionByNumber", TextFrom(message, 4))
  /\ (Parsed /\ IsGoToUrl(message))
       => webCommand = CommandQ("navigate", TextFrom(message, 3))

\* What the rule table does instead: no utterance at all is interpreted as
\* ScrollToSectionByNumber.
ScrollByNumberNeverProduced ==
  webCommand.action # "scrollToSectionByNumber"

-----------------------------------------------------------------------------
(* Properties of the embedding cache and of the result slots, checked under *)
(* Spec.                                                                    *)

\* The ids whose cached vector was not computed from the content that the
\* latest segmentation pass gave the id.
EarlierPassEntries ==
  { id \in DOMAIN contentEmbeddings :
      contentEmbeddings[id] # ContentVector(Section(id, pass)) }

\* processContentSections is about to issue the first provider request of a
\* batch.
AtFirstRequest == isTyping /\ toProcess # <<>> /\ requestLog = <<>>

\* C5: at the moment the first provider request of a new segmentation pass is
\* issued, the embedding cache holds no entry of an earlier pass.
C5_EarlierPassDiscarded == AtFirstRequest => EarlierPassEntries = {}

\* processContentSections has visited every section of the batch.
BatchDone == isTyping /\ toProcess = <<>>

SucceededIds == { processedSections[i].id : i \in 1..Len(processedSections) }

\* C6: after a batch in which some provider calls failed, the embedding cache
\* has an entry for exactly the section ids whose call succeeded in that
\* batch.
C6_CacheIsWhatSucceeded ==
  (BatchDone /\ Len(processedSections) < Len(requestLog))
    => DOMAIN contentEmbeddings = SucceededIds

\* processContentSections passes a section whose id has a cached embedding.
MeetsCached ==
  /\ isTyping
  /\ toProcess # <<>>
  /\ Head(toProcess).id \in DOMAIN contentEmbeddings
  /\ toProcess' = Tail(toProcess)

\* C7: when processContentSections meets a section whose id already has a
\* cached embedding, it issues no request to the provider for it and keeps
\* the cached vector.
C7_CachedIdIssuesNoRequest ==
  [][MeetsCached => /\ requestLog' = requestLog
                    /\ contentEmbeddings' = contentEmbeddings]_vars

\* C8: a numbered scroll request for result i targets the i-th result of the
\* immediately preceding search call, whichever kind that search was.
C8_ScrollTargetsLastSearch ==
  (reply.index # 0 /\ reply.expected # <<>>) => reply.target = reply.expected

\* C9: after a plain or semantic search that found nothing or failed, no
\* result of an earlier search of that kind is left in the result slot of the
\* kind.
C9_SearchOverwritesSlot ==
  /\ searches.plain = <<>> => currentSearchResults = <<>>
  /\ searches.semantic = <<>> => currentSemanticResults = <<>>

SuccessReplies ==
  {"scrolledTo", "scrolledSemantic", "smartScrolled", "navigated", "clicked"}

\* C10: a success message ('Scrolled to', 'Navigated to', 'Clicked on') is
\* the reply only if the receiving context answered the dispatched command
\* with success; when it answers success = false the reply is a failure
\* message.
C10_SuccessReplyOnlyOnSuccess ==
  reply.kind \in SuccessReplies => reply.outcome = "ok"

\* C18: the dispatcher routes by the kind of the action: navigate and click
\* go to the service worker only, every other action to the content script
\* of the active tab only, and each call of the dispatcher sends exactly one
\* request, with no retry, whatever the answer.
C18_RoutedByKindAndSentOnce ==
  /\ Len(reply.sent) = Len(reply.dispatched)
  /\ \A i \in 1..Len(reply.sent) :
       /\ i <= Len(reply.dispatched)
       /\ reply.sent[i].action = reply.dispatched[i]
       /\ reply.sent[i].to = IF reply.sent[i].action \in {"navigate", "click"}
                             THEN {"serviceWorker"}
                             ELSE {"contentScript"}

\* C18 witness: a click that the service worker answered with a failure was
\* sent once, to the service worker.
C18_FailedClickSentOnce ==
  /\ reply.kind = "clicked"
  /\ reply.outcome = "fail"
  /\ Len(reply.sent) = 1
  /\ reply.sent[1].to = {"serviceWorker"}

\* C19: every message that is sent takes exactly one of two paths: if
\* parseWebCommand returns null it goes to the LLM and no action is
\* dispatched; if it returns a command and web interaction is enabled, the
\* command is executed and the LLM is not called.
C19_LlmOrCommand ==
  reply.parsed # "none" =>
    /\ reply.via \in {"llm", "command"}
    /\ reply.parsed = "null" => reply.via = "llm" /\ reply.dispatched = <<>>
    /\ reply.parsed = "cmd" /\ reply.enabled => reply.via = "command"

-----------------------------------------------------------------------------
(* Properties of semanticSearch called directly, checked under SpecRank. *)

\* The pair a direct call is memoized by.
PairOf(c) == <<c.query, Len(c.sections)>>

\* C11: every call semanticSearch(query, sections, k) returns a list of
\* length at most k, also when it is answered from the query cache that an
\* earlier call with another k filled.
C11_AtMostMaxResults ==
  call.fn = "semanticSearch" => Len(call.results) <= call.maxResults

\* C12: results are memoized by the pair (query, number of candidates): a
\* call whose pair an earlier call ranked returns the list of that call and
\* asks the provider nothing, whatever the candidates now hold, and the
\* query cache keeps one entry for each pair that was ranked, the list
\* ranked for that pair.
C12_MemoizedByQueryAndCount ==
  /\ call.fn = "semanticSearch" /\ PairOf(call) \in DOMAIN call.earlier
       => call.results = call.earlier[PairOf(call)] /\ call.asked = <<>>
  /\ Cardinality(DOMAIN searchCache) = Cardinality(DOMAIN call.computed)
  /\ \A pair \in DOMAIN call.computed :
       /\ pair[1] \o <<"_", pair[2]>> \in DOMAIN searchCache
       /\ searchCache[pair[1] \o <<"_", pair[2]>>] = call.computed[pair]

\* C12 witness: a call is answered with the list ranked for an earlier pass,
\* although the candidates are those of a later pass.
C12_AnsweredFromEarlierPass ==
  /\ call.fn = "semanticSearch"
  /\ PairOf(call) \in DOMAIN call.earlier
  /\ call.results # <<>>
  /\ call.sections # <<>>
  /\ call.results[1].pass < call.sections[1].pass
  /\ Cardinality(DOMAIN searchCache) > 1

-----------------------------------------------------------------------------
(* Properties of deduplicateResults called directly, checked under         *)
(* SpecDedup.                                                                *)

\* The positions of the results of this id in a list.
Occurrences(results, id) == { i \in 1..Len(results) : results[i].id = id }

\* This result carries the highest similarity of the results of its id in
\* the list, with the label that goes with it.
CarriesMaximum(r, results) ==
  /\ \E j \in Occurrences(results, r.id) :
       /\ r.relevanceScore = results[j].relevanceScore
       /\ r.relevanceLabel = results[j].relevanceLabel
  /\ \A j \in Occurrences(results, r.id) :
       ~SimLess(r.relevanceScore, results[j].relevanceScore)
  /\ r.relevanceLabel = getRelevanceLabel(r.relevanceScore)

\* C13: deduplication keeps exactly one result for each section id of the
\* concatenated results, and that result carries the maximum similarity
\* observed for the id, and its label, for any number of occurrences in any
\* order.
C13_KeepsMaximumPerId ==
  call.fn = "deduplicateResults" =>
    /\ \A j \in 1..Len(call.sections) :
         Cardinality(Occurrences(call.results, call.sections[j].id)) = 1
    /\ \A i \in 1..Len(call.results) :
         /\ Occurrences(call.sections, call.results[i].id) # {}
         /\ CarriesMaximum(call.results[i], call.sections)

\* C13 witness: an id occurs three times, its highest similarity neither
\* first nor last, and the one result kept carries that similarity.
C13_RaisedFromTheMiddle ==
  /\ call.fn = "deduplicateResults"
  /\ Len(call.sections) = 3
  /\ Len(call.results) = 1
  /\ SimLess(call.sections[1].relevanceScore, call.sections[2].relevanceScore)
  /\ SimLess(call.sections[3].relevanceScore, call.sections[2].relevanceScore)
  /\ call.results[1].relevanceScore = call.sections[2].relevanceScore

-----------------------------------------------------------------------------
(* Properties of the segmenter and of scrollToSection, checked under       *)
(* SpecPage.                                                                 *)

\* The segmenter has run on the document.
Segmented == page.op = "extract"

\* C14: no element's text is included in the content of two different
\* output sections, also when a landmark or a paragraph is nested in an
\* element that a heading section claimed, or contains a heading that has
\* its own section.
C14_NoTextInTwoSections ==
  Segmented =>
    \A i, j \in 1..Len(page.sections) :
      i # j => page.sections[i].content \cap page.sections[j].content = {}

\* C15: the sets of elements claimed by the output sections of one pass are
\* pairwise disjoint.
C15_ClaimedElementsDisjoint ==
  Segmented =>
    \A i, j \in 1..Len(page.sections) :
      i # j => Range(page.sections[i].elements)
                 \cap Range(page.sections[j].elements) = {}

\* C15 witness: two sections come out, and one of them claims a heading
\* that follows its own, so that this heading is passed over.
C15_ClaimedHeadingPassedOver ==
  /\ Segmented
  /\ Len(page.sections) >= 2
  /\ \E i \in 1..Len(page.sections) :
       \E k \in 2..Len(page.sections[i].elements) :
         Node(document, page.sections[i].elements[k]).tag \in HeadingTags

\* The document of the scenario: an H1, 200 words of text, a sibling H2, and
\* no other heading.
IntroDetails ==
  /\ Len(document) >= 3
  /\ document[1] = Leaf("H1", ShortText)
  /\ document[2] = Leaf("P", LongText)
  /\ document[3] = Leaf("H2", ShortText)
  /\ SelectAll(document, HeadingTags) = <<<<1>>, <<3>>>>

\* C16: segmenting a document whose headings are an H1 and a sibling H2
\* with 200 words of text between them gives exactly two sections, one
\* headed by the H1 and one by the H2, each with content.
C16_IntroAndDetails ==
  Segmented /\ IntroDetails =>
    /\ Len(page.sections) = 2
    /\ { page.sections[i].heading : i \in 1..Len(page.sections) }
         = {<<1>>, <<3>>}
    /\ \A i \in 1..Len(page.sections) : page.sections[i].len > 0

\* scrollToSection was given a selector.
ScrolledBySelector == page.op = "scroll" /\ page.selector # <<>>

\* C17: scrollToSection with a selector that matches no element fails with
\* 'Element not found' and scrolls to nothing and highlights nothing; with a
\* selector that matches an element it scrolls to the element and answers
\* success, whatever the rendered size of the element.
C17_ScrollBySelector ==
  ScrolledBySelector =>
    IF querySelector(document, page.selector) = <<>>
    THEN /\ page.outcome = "error"
         /\ page.error = "Element not found"
         /\ page.scrolled = <<>>
         /\ page.highlighted = <<>>
    ELSE /\ page.outcome = "ok"
         /\ page.scrolled = querySelector(document, page.selector)

\* C17 witness: the selector matches an element of no size, and the scroll
\* succeeds.
C17_ScrolledToElementOfNoSize ==
  /\ ScrolledBySelector
  /\ querySelector(document, page.selector) # <<>>
  /\ page.size = "zero"
  /\ page.outcome = "ok"

-----------------------------------------------------------------------------
(* Properties of the segmenter followed by processContentSections, checked *)
(* under SpecEmbed.                                                          *)

\* The ids of the sections of the document that are too short to embed.
ShortIds ==
  { page.made[i].id : i \in { k \in 1..Len(page.made) :
                                page.made[k].len <= MinContent } }

\* C20: no section whose content has 50 characters or less reaches the
\* embedding provider or the embedding cache: the segmenter drops it, and
\* processContentSections skips it if it is submitted all the same.
C20_ShortSectionsNotEmbedded ==
  /\ Segmented =>
       \A i \in 1..Len(page.sections) : page.sections[i].len > MinContent
  /\ \A i \in 1..Len(requestLog) : requestLog[i].len > MinContent
  /\ \A i \in 1..Len(processedSections) :
       processedSections[i].len > MinContent
  /\ \A i \in 1..Len(semanticSections) : semanticSections[i].len > MinContent
  /\ DOMAIN contentEmbeddings \cap ShortIds = {}

\* C20 witness: a short section was submitted with a long one, the long one
\* was embedded and the call has come to its end.
C20_ShortSectionSkipped ==
  /\ call.fn = "processContentSections"
  /\ \E i \in 1..Len(call.sections) : call.sections[i].len <= MinContent
  /\ isTyping
  /\ toProcess = <<>>
  /\ processedSections # <<>>


\* What processContentSections has pushed after the requests of log were
\* answered as ans says: the sections whose request returned an embedding, in
\* the order of the requests.
RECURSIVE Succeeded(_, _)
Succeeded(log, ans) ==
  IF log = <<>> THEN <<>>
  ELSE IF Head(ans)
       THEN <<Processed(Head(log), ContentVector(Head(log)))>>
              \o Succeeded(Tail(log), Tail(ans))
       ELSE Succeeded(Tail(log), Tail(ans))

\* processContentSections has visited every section it was given.
Returned == call.fn = "processContentSections" /\ toProcess = <<>>

\* C21: a provider request that fails never ends the batch: when
\* processContentSections returns, every section it was given with content of
\* more than 50 characters has been sent to the provider, in input order, and
\* the list it returns (and the side panel stores) is exactly the sections
\* whose request succeeded, in input order.
C21_FailedRequestSkipsOneSection ==
  Returned =>
    /\ requestLog = SelectSeq(call.sections, Embeddable)
    /\ Len(answered) = Len(requestLog)
    /\ processedSections = Succeeded(requestLog, answered)
    /\ ~isTyping => semanticSections = processedSections

\* C21 witness: processContentSections has returned from a batch in which a
\* request failed and a later one succeeded.
C21_SucceededAfterFailure ==
  /\ Returned
  /\ ~isTyping
  /\ \E i, j \in 1..Len(answered) : i < j /\ ~answered[i] /\ answered[j]
  /\ processedSections # <<>>


-----------------------------------------------------------------------------
(* Properties of getRelevanceLabel, checked under SpecLabel. *)

\* The labels, from the lowest rank to the highest.
LabelRank(label) ==
  CASE label = "Very Low" -> 0
    [] label = "Low" -> 1
    [] label = "Medium" -> 2
    [] label = "High" -> 3
    [] label = "Very High" -> 4

\* similarity > p / 10, for a similarity of the grid
Exceeds(similarity, p) == 10 * similarity.num > p * Grid

\* The label of the spec's table for a similarity of the grid.
LabelOfTable(similarity) ==
  IF Exceeds(similarity, 8) THEN "Very High"
  ELSE IF Exceeds(similarity, 6) THEN "High"
  ELSE IF Exceeds(similarity, 4) THEN "Medium"
  ELSE IF Exceeds(similarity, 2) THEN "Low"
  ELSE "Very Low"

\* C22: every similarity of [-1, 1] gets exactly one of the five labels, the
\* one of the table Very High (> 0.8), High (> 0.6), Medium (> 0.4), Low
\* (> 0.2), Very Low (otherwise) with each threshold exclusive, and of two
\* similarities the one that is not smaller never gets the lower-ranked label.
C22_LabelTotalAndMonotonic ==
  call.fn = "getRelevanceLabel" =>
    LET now == call.results[1]
    IN  /\ now.relevanceLabel \in {"Very Low", "Low", "Medium", "High", "Very High"}
        /\ now.relevanceLabel = LabelOfTable(now.relevanceScore)
        /\ \A i \in 1..Len(call.earlier) :
             LET was == call.earlier[i]
             IN  /\ was.relevanceScore.num >= now.relevanceScore.num
                      => LabelRank(was.relevanceLabel) >= LabelRank(now.relevanceLabel)
                 /\ now.relevanceScore.num >= was.relevanceScore.num
                      => LabelRank(now.relevanceLabel) >= LabelRank(was.relevanceLabel)

\* C22 witness: the similarity 0.8 itself was labelled High, after a
\* similarity above it was labelled Very High.
C22_ThresholdIsExclusive ==
  /\ call.fn = "getRelevanceLabel"
  /\ 10 * call.results[1].relevanceScore.num = 8 * Grid
  /\ call.results[1].relevanceLabel = "High"
  /\ call.earlier # <<>>
  /\ call.earlier[1].relevanceLabel = "Very High"


-----------------------------------------------------------------------------
(* Properties of waitForElement, checked under SpecWait. *)

WaitCalled == waiting.n > 0

WaitSettled == waiting.promise.settled

\* What holds of a waitForElement at every moment.
WaitIsSound ==
  WaitCalled =>
    /\ waiting.timeout \in {DefaultTimeout, 100}
    /\ ~WaitSettled => waiting.timer /\ waiting.observing
    /\ WaitSettled =>
         /\ waiting.promise = Head(waiting.resolves)
         /\ waiting.promise.selector = waiting.selector
         /\ waiting.promise.found <=> waiting.seen
         /\ waiting.promise.found <=> ~waiting.promise.timeout
         /\ ~waiting.promise.found => waiting.elapsed

-----------------------------------------------------------------------------
(* Properties of the service worker's message handler, checked under *)
(* SpecWorker. *)

\* The responses to the request in hand carry success, and error if success
\* is false.
WellFormedResponses ==
  \A i \in 1..Len(call.results) :
    /\ "success" \in call.results[i].fields
    /\ ~call.results[i].success => "error" \in call.results[i].fields

\* C24: every request delivered to the service worker's message handler
\* eventually gets exactly one response, and the response carries success
\* (and an error when it is a failure), whatever the action and also when the
\* storage or browser call behind it fails.
C24_EveryRequestAnswered ==
  /\ [](call.fn = "handleMessage" => Len(call.results) <= 1 /\ WellFormedResponses)
  /\ \A k \in 1..MaxCalls :
       (call.fn = "handleMessage" /\ call.n = k)
         ~> (call.n = k /\ Len(call.results) = 1)

\* The request setStorageData is never answered when chrome.storage.local.set
\* fails: no response has been sent once the promise has settled.
SetStorageUnanswered ==
  /\ call.fn = "handleMessage"
  /\ call.query = <<"setStorageData">>
  /\ call.asked = <<>>
  /\ call.results = <<>>


-----------------------------------------------------------------------------
(* Properties of extractSearchTerms, checked under SpecTerms. *)

\* The places of text where the word stands with a blank and something more
\* after it: where a pattern that begins with the word and \s+ and ends with
\* (.+?)$ can start.
KeywordAt(text, word) ==
  { i \in 1..Len(text) : text[i] = word /\ i + 2 <= Len(text) /\ text[i + 1] = SP }

FirstAt(places) == CHOOSE i \in places : \A j \in places : i <= j

\* term is the trimmed end of text, from somewhere after the first such
\* place of the word on.
CapturedAfter(term, text, word) ==
  \E k \in (FirstAt(KeywordAt(text, word)) + 2)..Len(text) :
    term = Trim(SubSeq(text, k, Len(text)))

\* The terms of a request are as C25 says.
TermsInOrder(terms, text) ==
  LET scroll == KeywordAt(text, "scroll") # {}
      find == KeywordAt(text, "find") # {}
  IN  /\ Len(terms) >= 1
      /\ Len(terms) = IF scroll /\ find THEN 2 ELSE 1
      /\ scroll => CapturedAfter(terms[1], text, "scroll")
      /\ find => CapturedAfter(terms[Len(terms)], text, "find")
      /\ (~scroll /\ ~find) => terms = <<text>>

\* C25: extractSearchTerms returns a non-empty ordered list for every
\* request: first the term captured by the scroll pattern if it matches, then
\* the term captured by the find pattern if it matches, and the request
\* itself, verbatim, as the only term if neither matches.
C25_TermsNonEmptyInOrder ==
  call.fn = "extractSearchTerms" => TermsInOrder(call.results, call.query)

\* C25 witness: in the request "find scroll tuition" both patterns match; the
\* term of the scroll pattern comes first although "find" comes first in the
\* request.
C25_ScrollTermBeforeFindTerm ==
  /\ call.fn = "extractSearchTerms"
  /\ call.query = <<"find", SP, "scroll", SP, "tuition">>
  /\ call.results = << <<"tuition">>, <<"scroll", SP, "tuition">> >>


-----------------------------------------------------------------------------
(* Properties of the selectors and the heading sections of the segmenter, *)
(* checked under SpecPage. *)

\* C26: for every section that a segmentation pass returns, the selector
\* recorded in it, resolved against the same document, gives the section's
\* root element (the first of the elements it claims).
C26_SelectorFindsSectionRoot ==
  page.op = "extract" =>
    \A i \in 1..Len(page.sections) :
      querySelector(document, page.sections[i].selector)
        = page.sections[i].elements[1]


\* The sections of the heading blocks of the last pass.
HeadingSections ==
  SelectSeq(page.made, LAMBDA section : section.type = "heading-section")

\* The following siblings of the heading that stand before its next sibling
\* heading of equal or shallower level.
UpToNextHeading(doc, heading) ==
  LET siblings == NextSiblings(doc, heading)
      ends == { k \in 1..Len(siblings) :
                  /\ Node(doc, siblings[k]).tag \in HeadingTags
                  /\ Level(Node(doc, siblings[k]).tag) <= Level(Node(doc, heading).tag) }
  IN  SubSeq(siblings, 1,
             Cardinality({ k \in 1..Len(siblings) : \A j \in ends : k < j }))

\* The heading is among the siblings that a heading section took.
ClaimedByASection(heading) ==
  \E i \in 1..Len(HeadingSections) :
    heading \in Range(Tail(HeadingSections[i].elements))

\* C27: a heading that no earlier heading section has claimed yields one
\* heading section, whose elements are the heading and then its following
\* siblings up to, but not including, the next sibling heading of equal or
\* shallower level; a heading that an earlier heading section has claimed
\* yields no section of its own.
C27_HeadingSectionUpToNextHeading ==
  page.op = "extract" =>
    /\ \A i \in 1..Len(HeadingSections) :
         LET heading == HeadingSections[i].elements[1]
         IN  /\ Node(document, heading).tag \in HeadingTags
             /\ HeadingSections[i].elements
                  = <<heading>> \o UpToNextHeading(document, heading)
             /\ \A j \in 1..Len(HeadingSections) :
                  HeadingSections[j].elements[1] = heading => j = i
    /\ \A heading \in Range(SelectAll(document, HeadingTags)) :
         ClaimedByASection(heading)
           <=> ~\E i \in 1..Len(HeadingSections) :
                  HeadingSections[i].elements[1] = heading

\* C27 witness: in H1, H2, H1 the section of the first H1 has taken the H2,
\* which has no section of its own, and has ended before the second H1, which
\* has one.
C27_DeeperTakenEqualEnds ==
  /\ page.op = "extract"
  /\ Len(document) = 3
  /\ document[1].tag = "H1" /\ document[2].tag = "H2" /\ document[3].tag = "H1"
  /\ Len(HeadingSections) = 2
  /\ HeadingSections[1].elements = << <<1>>, <<2>> >>
  /\ HeadingSections[2].elements = << <<3>> >>


-----------------------------------------------------------------------------
(* Properties of semanticSearch on a cache miss, checked under SpecMiss. *)

\* The last call missed the query cache and ranked the candidates.
RankedOnMiss ==
  /\ call.fn = "semanticSearch"
  /\ call.asked # <<>>
  /\ CacheKey(call.query, call.sections) \in DOMAIN searchCache

\* The similarity of candidate i of the last call to its query.
ScoreOf(i) ==
  calculateCosineSimilarity(QueryVector(call.query),
                            call.computed[call.sections[i].id])

\* The candidates of the last call with a cached embedding and a similarity
\* above 0.1.
Eligible ==
  { i \in 1..Len(call.sections) :
      /\ call.sections[i].id \in DOMAIN call.computed
      /\ 100 * Signed(ScoreOf(i)) > ScoreOf(i).den2 }

\* Result r is candidate i with its score.
IsCandidate(r, i) ==
  /\ r.id = call.sections[i].id
  /\ r.pass = call.sections[i].pass
  /\ r.selector = call.sections[i].selector
  /\ r.relevanceScore = ScoreOf(i)

\* C28: on a cache miss semanticSearch returns only candidates that have a
\* cached embedding and a similarity strictly above 0.1, in descending order
\* of similarity, and they are the k highest-scoring of these candidates; a
\* candidate without an embedding is left out and the search still answers.
C28_MissRanksEmbeddedAboveThreshold ==
  RankedOnMiss =>
    /\ Len(call.results) =
         IF Cardinality(Eligible) < call.maxResults
         THEN Cardinality(Eligible) ELSE call.maxResults
    /\ \A a \in 1..Len(call.results) :
         /\ \E i \in Eligible : IsCandidate(call.results[a], i)
         /\ \A b \in 1..Len(call.results) :
              /\ a < b => ~SimLess(call.results[a].relevanceScore,
                                   call.results[b].relevanceScore)
              /\ a # b => call.results[a].id # call.results[b].id
         /\ \A i \in Eligible :
              (\A b \in 1..Len(call.results) : ~IsCandidate(call.results[b], i))
                => ~SimLess(call.results[a].relevanceScore, ScoreOf(i))

\* C28 witness: a miss ranked two candidates with embeddings, returned the
\* higher-scoring one first although it came second, and another miss left
\* out a candidate without an embedding.
C28_RankedWithoutUnembedded ==
  /\ RankedOnMiss
  /\ call.results # <<>>
  /\ \E i \in 1..Len(call.sections) : call.sections[i].id \notin DOMAIN call.computed


-----------------------------------------------------------------------------
(* Properties of findMostRelevantSections, checked under SpecFind. *)

\* The ids that the searches of the terms of the last call returned.
FoundIds == { call.earlier[i].id : i \in 1..Len(call.earlier) }

\* The score is the highest that a term's search gave the id.
BestScore(score, id) ==
  /\ \E i \in 1..Len(call.earlier) :
       call.earlier[i].id = id /\ call.earlier[i].relevanceScore = score
  /\ \A i \in 1..Len(call.earlier) :
       call.earlier[i].id = id => ~SimLess(score, call.earlier[i].relevanceScore)

\* C29: findMostRelevantSections returns at most 3 results, of pairwise
\* distinct section ids, in descending order of similarity; the per-term
\* lists, each cut to its own top k, are deduplicated by id (highest score
\* kept) before the cut to the top 3, so that the results are the 3 best of
\* the distinct ids found.
C29_TopThreeDistinctDescending ==
  call.fn = "findMostRelevantSections" =>
    /\ Len(call.earlier) <= DefaultMaxResults * MaxTerms
    /\ Len(call.results) <= TopRanked
    /\ Len(call.results) =
         IF Cardinality(FoundIds) < TopRanked
         THEN Cardinality(FoundIds) ELSE TopRanked
    /\ \A a \in 1..Len(call.results) :
         /\ BestScore(call.results[a].relevanceScore, call.results[a].id)
         /\ \A b \in 1..Len(call.results) :
              /\ a # b => call.results[a].id # call.results[b].id
              /\ a < b => ~SimLess(call.results[a].relevanceScore,
                                   call.results[b].relevanceScore)
         /\ \A i \in 1..Len(call.earlier) :
              (\A b \in 1..Len(call.results) :
                 call.results[b].id # call.earlier[i].id)
                => ~SimLess(call.results[a].relevanceScore,
                            call.earlier[i].relevanceScore)

\* C29 witness: both terms of a request found more than 5 sections and were
\* cut to 5 each, the same 5; the 10 results were deduplicated to 5 ids and
\* cut to 3.
C29_TwoTermsCutAndMerged ==
  /\ call.fn = "findMostRelevantSections"
  /\ Len(call.sections) > DefaultMaxResults
  /\ Len(call.earlier) = 2 * DefaultMaxResults
  /\ Cardinality(FoundIds) = DefaultMaxResults
  /\ Len(call.results) = TopRanked


-----------------------------------------------------------------------------
(* Properties of calculateCosineSimilarity, checked under SpecCosine. *)

ZeroVector(v) == \A i \in 1..Len(v) : v[i] = 0

\* Two similarities are the same number.
SameSimilarity(x, y) == ~SimLess(x, y) /\ ~SimLess(y, x)

\* C30: calculateCosineSimilarity gives the same value for (a, b) and for
\* (b, a), for all vectors of one dimension, and gives 0, with no division
\* by zero, whenever one of the two vectors has zero magnitude.
C30_SymmetricAndZeroSafe ==
  call.fn = "calculateCosineSimilarity" =>
    /\ call.results[1].den2 > 0
    /\ call.results[2].den2 > 0
    /\ SameSimilarity(call.results[1], call.results[2])
    /\ (ZeroVector(call.query) \/ ZeroVector(call.sections))
         => call.results[1].num = 0 /\ call.results[2].num = 0

\* C30 witness: the similarity of a zero vector and a vector that is not
\* zero was computed in both orders.
C30_ZeroAgainstNonZero ==
  /\ call.fn = "calculateCosineSimilarity"
  /\ ZeroVector(call.query)
  /\ ~ZeroVector(call.sections)
  /\ Len(call.query) = MaxDimension
  /\ call.results[1].num = 0


-----------------------------------------------------------------------------
(* Properties of the requests of a batch, checked under SpecBatch. *)

\* The requests issued and not yet settled.
InFlight == Len(requestLog) - Len(answered)

\* The sections of the batch that are to be embedded, in input order.
Eligibles == SelectSeq(call.sections, Embeddable)

\* C31: within a batch of processContentSections the requests are issued one
\* at a time in section order: at most one is in flight at any moment, a
\* request is issued only when the one before it has settled, and each
\* eligible section causes exactly one request, whether it fails or not.
C31_OneRequestAtATime ==
  call.fn = "processContentSections" =>
    /\ InFlight \in {0, 1}
    /\ Len(requestLog) <= Len(Eligibles)
    /\ requestLog = SubSeq(Eligibles, 1, Len(requestLog))
    /\ (toProcess = <<>>) => requestLog = Eligibles

\* C31 witness: the first request of a batch has failed and the second is in
\* flight; the first section has not been requested again.
C31_SecondAfterFailedFirst ==
  /\ call.fn = "processContentSections"
  /\ isTyping
  /\ Len(requestLog) = 2
  /\ answered = <<FALSE>>
  /\ requestLog[1] # requestLog[2]


-----------------------------------------------------------------------------
(* Properties of the highlight, checked under SpecHighlight. *)

\* C32: the highlight of scrollToSection is transient: once the delay has
\* elapsed after the last highlight of an element (no timer of it is
\* pending), the element's inline border and background are what they were
\* before it was highlighted, also when highlights of it overlapped.
C32_HighlightReverted ==
  \A element \in DOMAIN highlight.timers :
    highlight.timers[element] = 0
      => highlight.now[element] = highlight.before[element]

\* The inline style the page gave an element is gone after the highlight.
InlineStyleLost ==
  \E element \in DOMAIN highlight.timers :
    /\ highlight.timers[element] = 0
    /\ highlight.before[element] # NoStyle
    /\ highlight.now[element] = NoStyle


-----------------------------------------------------------------------------
(* Properties of handleSendMessage, checked under SpecSend. *)

\* A call of handleSendMessage returned at line 384.
SendRefused ==
  /\ chat'.attempts = chat.attempts + 1
  /\ isTyping

TwoCommandsInFlight == Len(chat.flights) = 2


\* The calls of handleSendMessage that are awaiting sendToGroq.
ToGroq == { i \in DOMAIN chat.flights : ~chat.flights[i].command }

\* The messages of the conversation before the one that flight handles.
EarlierMessages(flight) == SubSeq(chat.messages, 1, flight.at - 1)

IsSuffix(xs, ys) ==
  /\ Len(xs) <= Len(ys)
  /\ xs = SubSeq(ys, Len(ys) - Len(xs) + 1, Len(ys))

EntriesWith(request, content) ==
  Cardinality({ k \in DOMAIN request : request[k].content = content })

\* C39: the request sent to the LLM for a user message contains that message
\* exactly once, as its final entry, preceded by at most the 10 most recent
\* earlier messages of the conversation, in their original order.
C39_RequestEndsWithMessageOnce ==
  \A i \in ToGroq :
    /\ chat.flights[i].request[Len(chat.flights[i].request)]
         = Message("user", chat.flights[i].content)
    /\ EntriesWith(chat.flights[i].request, chat.flights[i].content) = 1
    /\ Len(chat.flights[i].request) - 1 <= RecentMessages
    /\ IsSuffix(SubSeq(chat.flights[i].request, 1,
                       Len(chat.flights[i].request) - 1),
                EarlierMessages(chat.flights[i]))

\* A request holds the user's message twice, after nine earlier messages.
MessageSentTwice ==
  \E i \in ToGroq :
    /\ Len(chat.flights[i].request) = RecentMessages + 1
    /\ EntriesWith(chat.flights[i].request, chat.flights[i].content) = 2


-----------------------------------------------------------------------------
(* Properties of the scroll command, checked under SpecScroll. *)

\* A 'scroll to <target>' message was handled whose target is a selector
\* that matches an element of the page.
ScrolledToMatching ==
  /\ webCommand.kind = "cmd"
  /\ webCommand.action = "scrollToSection"
  /\ querySelector(document, SelectorFrom(webCommand.query)) # <<>>

\* C34: a 'scroll to <target>' command interpreted as scrollToSection, whose
\* target is a selector matching an element of the page, ends with the page
\* scrolled to that element and a success reply: the target captured reaches
\* the page's scrollToSection as its selector.
C34_ScrollReachesTarget ==
  ScrolledToMatching =>
    /\ page.selector = SelectorFrom(webCommand.query)
    /\ page.scrolled = querySelector(document, SelectorFrom(webCommand.query))
    /\ reply.kind = "scrolledToSection"

\* The command for a matching selector ended with the error of a call
\* without selector.
ScrollWithoutSelector ==
  /\ ScrolledToMatching
  /\ page.error = "Either selector or coordinates must be provided"
  /\ reply.kind = "failedToScroll"


-----------------------------------------------------------------------------
(* Properties of the query cache, checked under SpecFind. *)

\* The query of a cache key.
QueryOfKey(key) == SubSeq(key, 1, Len(key) - 2)

\* The results semanticSearch computes for the query of a key.
ComputedFor(key) ==
  RankSections(QueryVector(QueryOfKey(key)), semanticSections,
               contentEmbeddings, DefaultMaxResults)

\* C35: findMostRelevantSections leaves the query cache unchanged apart from
\* adding entries for its own terms: every cached entry keeps, for each of
\* its results, the similarity and the label computed for the entry's query,
\* so a later semanticSearch for that query returns the scores of that query,
\* in descending order.
C35_CacheKeepsQueryScores ==
  \A key \in DOMAIN searchCache :
    /\ searchCache[key] = ComputedFor(key)
    /\ \A a, b \in 1..Len(searchCache[key]) :
         a < b => ~SimLess(searchCache[key][a].relevanceScore,
                           searchCache[key][b].relevanceScore)

\* A cached entry holds, for one of its results, a higher score than the
\* one computed for the entry's query.
CacheEntryRescored ==
  \E key \in DOMAIN searchCache :
    /\ Len(searchCache[key]) = Len(ComputedFor(key))
    /\ \E a \in 1..Len(searchCache[key]) :
         /\ searchCache[key][a].id = ComputedFor(key)[a].id
         /\ SimLess(ComputedFor(key)[a].relevanceScore,
                    searchCache[key][a].relevanceScore)


-----------------------------------------------------------------------------
(* Properties of the ids of the section roots, checked under SpecIds. *)

\* C36: after any sequence of segmentation passes, with arbitrary document
\* changes between them, the synthetic ids written to section roots stay
\* unique in the document (no two elements carry the same
\* 'semantic-section-N' id), and a section's id equals the id of its root
\* element (no element had an id before the first pass).
C36_SectionIdsUnique ==
  /\ \A j, k \in DOMAIN marks.ids :
       j # k /\ marks.ids[j] # 0 => marks.ids[j] # marks.ids[k]
  /\ \A i \in DOMAIN marks.sections :
       marks.sections[i].root = marks.sections[i].id

\* After a second pass two elements carry the same id, and a section has
\* another id than its root.
TwoElementsOneId ==
  /\ marks.passes = 2
  /\ \E j, k \in DOMAIN marks.ids :
       j # k /\ marks.ids[j] # 0 /\ marks.ids[j] = marks.ids[k]
  /\ \E i \in DOMAIN marks.sections :
       marks.sections[i].root # marks.sections[i].id


-----------------------------------------------------------------------------
(* Properties of ChatBot.init, checked under SpecBoot. *)

\* C37: however calls of ChatBot.init interleave (the call at page load and
\* the calls made after one or more concurrent API-key saves), the one-time
\* setup runs at most once: the chat and message listeners are registered
\* once and the welcome message is added once.
C37_SetupRunsOnce ==
  /\ boot.chatListeners <= 1
  /\ boot.messageListeners <= 1
  /\ boot.welcomes <= 1

\* Two saves were under way together, and the setup has run twice.
SetupRanTwice ==
  /\ Len(boot.saves) = 2
  /\ boot.chatListeners = 2
  /\ boot.welcomes = 2

\* init has run once and nothing of it is pending.
InitOver ==
  /\ initialized
  /\ boot.welcomes = 1
  /\ boot.started = 1
  /\ boot.inits = 0
  /\ boot.loads = 0
  /\ boot.writes = <<>>

\* C38: initialising the chatbot never loses stored chat history: under every
\* interleaving of the history load with the save triggered by the welcome
\* message, after init the in-memory message list and the history in storage
\* both hold every message that was stored before init, followed by the
\* welcome message.
C38_HistoryKept ==
  InitOver =>
    /\ boot.messages = Append(boot.before, Welcome)
    /\ boot.stored = Append(boot.before, Welcome)

\* After init the storage holds the welcome message only; the history of the
\* earlier session is gone from it.
HistoryOverwritten ==
  /\ InitOver
  /\ boot.before # <<>>
  /\ boot.stored = <<Welcome>>


-----------------------------------------------------------------------------
(* Properties of a failed query embedding, checked under SpecRetry. *)

\* The last call asked the provider for the query's embedding and got none.
QueryNotEmbedded ==
  /\ call.fn = "semanticSearch"
  /\ call.asked # <<>>
  /\ ~answered[Len(answered)]

\* The provider embedded this query at some request.
Embedded(query) ==
  \E k \in DOMAIN requestLog : requestLog[k] = query /\ answered[k]

\* C40: when the provider fails to embed the query, semanticSearch returns
\* an empty list and stores nothing in the query cache, so a later call with
\* the same query and candidate count contacts the provider again; an empty
\* list is cached only when the query embedding succeeded and no candidate
\* passed the threshold.
C40_FailedQueryNotCached ==
  /\ [](/\ QueryNotEmbedded =>
             /\ call.results = <<>>
             /\ searchCache = call.earlier
             /\ CacheKey(call.query, call.sections) \notin DOMAIN searchCache
        /\ \A key \in DOMAIN searchCache :
             searchCache[key] = <<>> =>
               /\ Embedded(QueryOfKey(key))
               /\ ComputedFor(key) = <<>>)
  /\ [][(/\ call'.n = call.n + 1
         /\ CacheKey(call'.query, call'.sections) \notin DOMAIN searchCache)
          => /\ call'.asked = <<call'.query>>
             /\ Len(requestLog') = Len(requestLog) + 1]_vars

\* A query that the provider failed to embed was asked again by the next
\* call, and that call ranked sections.
AskedAgainAfterFailure ==
  /\ Len(requestLog) >= 2
  /\ requestLog[Len(requestLog)] = requestLog[Len(requestLog) - 1]
  /\ ~answered[Len(answered) - 1]
  /\ answered[Len(answered)]
  /\ call.query = requestLog[Len(requestLog)]
  /\ call.results # <<>>

=============================================================================
